---------------------------- MODULE Spec2Model ----------------------------
(***************************************************************************)
(* A model of the scene composer: the command history (useHistory), the    *)
(* scene provider (useSceneProvider: registry, spawn bounds, saved         *)
(* conditions, instruction text, randomized placement) and the selection   *)
(* manager (SelectionManager: pick, gizmo attachment, click/drag).         *)
(*                                                                         *)
(* Numbers.  Lengths are integers in millimetres.  Orientation is a yaw    *)
(* about the vertical (three.js Y) axis in eighths of a turn; cosines and  *)
(* sines are taken in thousandths, so a world bounding box is held in      *)
(* "fine" units of 1/2000 mm (Fine), in which every half extent is an      *)
(* integer.  Math.random() is a draw k/RandDen with k in 0..RandDen-1.     *)
(* Texts (the instruction) are opaque tokens 0, 1, 2, ...; 0 is ''.        *)
(* An optional value (T | null) is a sequence of length at most one.       *)
(***************************************************************************)
EXTENDS Integers, Sequences, FiniteSets, TLC

----------------------------------------------------------------------------
(* Program constants *)

MAX_HISTORY_SIZE == 50

maxAttempts == 100

ClickThreshold == 5


----------------------------------------------------------------------------
(* Bounds of the model *)

\* texts typed into the instruction field are the tokens 0..MaxText
MaxText == 52

\* commands on the undo stack in one behaviour of the whole editor
MaxCmds == 6

\* Math.random() for a position draws k / RandDen, k in 0..RandDen-1
RandDen == 2

\* gizmo drags in one behaviour of the picking specification
MaxDrags == 1

\* the longest way of the pointer that is told apart, in pixels
MaxTravel == 6

\* changes made after loading in one behaviour of the conditions specification
MaxOps == 3

\* changes made after loading in one behaviour of the specification of
\* every command
MaxEach == 2

\* the longest text typed into the instruction field, keystroke by keystroke
MaxChars == 3

\* changes made after loading in one behaviour of the specification of
\* loadCondition
MaxLoads == 4

----------------------------------------------------------------------------
(* Small helpers *)

None == << >>

Some(v) == << v >>

IsSome(o) == Len(o) > 0

Max(a, b) == IF a >= b THEN a ELSE b

Min(a, b) == IF a <= b THEN a ELSE b

Abs(a) == IF a >= 0 THEN a ELSE -a

SeqRange(s) == { s[i] : i \in 1..Len(s) }

RECURSIVE SelectSeqIdx(_, _, _)
\* Array.prototype.filter((_, i) => i !== drop), scanning from index i
SelectSeqIdx(s, i, drop) ==
  IF i > Len(s) THEN << >>
  ELSE (IF i = drop THEN << >> ELSE << s[i] >>) \o SelectSeqIdx(s, i + 1, drop)

\* Array.prototype.slice(0, -1)
DropLast(s) == IF Len(s) = 0 THEN << >> ELSE SubSeq(s, 1, Len(s) - 1)

\* Array.prototype.slice(k) for k >= 0
SliceFrom(s, k) == SubSeq(s, k + 1, Len(s))

----------------------------------------------------------------------------
(* Geometry and pose primitives *)

\* cos and sin of k eighths of a turn (k = 0..7), in thousandths
Cos1000 == << 1000, 707, 0, -707, -1000, -707, 0, 707 >>

Sin1000 == << 0, 707, 1000, 707, 0, -707, -1000, -707 >>

Turn == Len(Cos1000)

Milli == Cos1000[1]

\* fine units per millimetre: thousandths for the trigonometry, halves for
\* the half extents
Fine == 2 * Milli

SetMax(S) == CHOOSE m \in S : \A n \in S : n <= m

SetMin(S) == CHOOSE m \in S : \A n \in S : m <= n

\* millimetres to fine units
mm(v) == v * Fine

\* THREE.Box3.setFromObject for an object whose geometry is the local box
\* geo (millimetres), at transform tr (position in fine units): the
\* axis-aligned box of the scaled, rotated and translated corners, in fine
\* units.  A rotation by yaw about Y maps (x, z) to
\* (x cos + z sin, -x sin + z cos) and leaves y alone.
WorldBox(geo, tr) ==
  LET c == Cos1000[(tr.yaw % Turn) + 1]
      s == Sin1000[(tr.yaw % Turn) + 1]
      corners == { << x, z >> : x \in {geo.minX, geo.maxX}, z \in {geo.minZ, geo.maxZ} }
      wx == { tr.position.x + 2 * tr.scale * (p[1] * c + p[2] * s) : p \in corners }
      wz == { tr.position.z + 2 * tr.scale * (p[2] * c - p[1] * s) : p \in corners }
  IN  [minX |-> SetMin(wx), maxX |-> SetMax(wx),
       minY |-> tr.position.y + mm(tr.scale * geo.minY),
       maxY |-> tr.position.y + mm(tr.scale * geo.maxY),
       minZ |-> SetMin(wz), maxZ |-> SetMax(wz)]

\* THREE.Box3.intersectsBox (touching boxes intersect)
checkCollision(box1, box2) ==
  ~ (  box1.maxX < box2.minX \/ box1.minX > box2.maxX
    \/ box1.maxY < box2.minY \/ box1.minY > box2.maxY
    \/ box1.maxZ < box2.minZ \/ box1.minZ > box2.maxZ )

\* the containment test with the depth axis forgotten
isBoxWithinSpawnBounds_xOnly(box, bounds) ==
  box.minX >= bounds.minX /\ box.maxX <= bounds.maxX

\* isBoxWithinSpawnBounds under the bounds the closure holds: Z-up (X, Y)
\* against three.js (X, -Z); the height is not checked
isBoxWithinSpawnBounds(box, bounds) ==
  LET minX == bounds.minX
      maxX == bounds.maxX
      minZ == -bounds.maxY
      maxZ == -bounds.minY
  IN  /\ box.minX >= minX /\ box.maxX <= maxX
      /\ box.minZ >= minZ /\ box.maxZ <= maxZ

----------------------------------------------------------------------------
(* The assets the loader can hand to addAsset.  An asset record is the      *)
(* LoadedAsset (id and flags); its three.js object (transform and geometry) *)
(* is shared by every copy of the record and lives in objects[id].          *)

Asset(id, locked, excludeFromExport, disableGravity) ==
  [id |-> id, locked |-> locked, excludeFromExport |-> excludeFromExport,
   disableGravity |-> disableGravity]

\* position in millimetres here, held in fine units
Transform(x, y, z, yaw, scale) ==
  [position |-> [x |-> mm(x), y |-> mm(y), z |-> mm(z)], yaw |-> yaw, scale |-> scale]

Box(minX, maxX, minY, maxY, minZ, maxZ) ==
  [minX |-> minX, maxX |-> maxX, minY |-> minY, maxY |-> maxY,
   minZ |-> minZ, maxZ |-> maxZ]

\* 1: a small crate, centred geometry         (dynamic)
\* 2: a table the others stand on             (static: gravity disabled)
\* 3: a bar whose origin is at one end        (dynamic)
\* 4: a locked backdrop                       (locked)
\* 5: a helper marker, excluded from export   (export-excluded)
\* 6: a slab wider than the default rectangle (dynamic, cannot fit)
Catalog ==
  << [asset |-> Asset(1, FALSE, FALSE, FALSE), geo |-> Box(-50, 50, 0, 100, -50, 50),
      at |-> Transform(0, 20, 0, 0, 1)],
     [asset |-> Asset(2, FALSE, FALSE, TRUE), geo |-> Box(-400, 400, -20, 0, -400, 400),
      at |-> Transform(0, 20, 0, 0, 1)],
     [asset |-> Asset(3, FALSE, FALSE, FALSE), geo |-> Box(0, 200, 0, 40, -20, 20),
      at |-> Transform(100, 20, 100, 2, 1)],
     [asset |-> Asset(4, TRUE, FALSE, FALSE), geo |-> Box(-100, 100, 0, 300, -100, 100),
      at |-> Transform(0, 20, -200, 0, 1)],
     [asset |-> Asset(5, FALSE, TRUE, FALSE), geo |-> Box(-10, 10, 0, 20, -10, 10),
      at |-> Transform(200, 20, 200, 0, 1)],
     [asset |-> Asset(6, FALSE, FALSE, FALSE), geo |-> Box(-350, 350, 0, 30, -50, 50),
      at |-> Transform(0, 20, 0, 0, 1)] >>

AssetIds == 1..Len(Catalog)

Geo(id) == Catalog[id].geo

\* -0.3 .. 0.3 metres on both axes
DEFAULT_SPAWN_BOUNDS ==
  [minX |-> mm(-300), maxX |-> mm(300), minY |-> mm(-300), maxY |-> mm(300)]

----------------------------------------------------------------------------
(* State *)

VARIABLES
  assets,           \* useScene: the registry, LoadedAsset[] in order
  objects,          \* asset.object of every loadable asset: its transform
  selectedAsset,    \* useScene: selectedAsset (LoadedAsset | null)
  isRandomizeMode,  \* useScene: isRandomizeMode
  spawnBounds,      \* useScene: spawnBounds
  savedPoses,       \* useScene: savedPoses (Map | null)
  savedConditions,  \* useScene: savedConditions
  instruction,      \* useScene: instruction
  boundsMeshRef,    \* useScene: boundsMeshRef.current (the proxy mesh | null)
  undoStack,        \* useHistory: undoStackRef.current
  redoStack,        \* useHistory: redoStackRef.current
  invoked,          \* the command callbacks the latest handler ran, in order
  sm,               \* the SelectionManager's fields
  rz,               \* doRandomizeNonStaticAssets: its locals and position,
                    \* and the deferred calls of it that wait for their turn
  beforeValueRef,   \* InstructionPanel: beforeValueRef.current
  beforeBoundsRef   \* RandomizationPanel: beforeBoundsRef.current

vars == << assets, objects, selectedAsset, isRandomizeMode, spawnBounds, savedPoses,
           savedConditions, instruction, boundsMeshRef, undoStack, redoStack,
           invoked, sm, rz, beforeValueRef, beforeBoundsRef >>

\* what the command closures read and write
Scene ==
  [assets |-> assets, objects |-> objects, selectedAsset |-> selectedAsset,
   spawnBounds |-> spawnBounds, savedConditions |-> savedConditions,
   instruction |-> instruction, sm |-> sm]

SetScene(s) ==
  /\ assets' = s.assets
  /\ objects' = s.objects
  /\ selectedAsset' = s.selectedAsset
  /\ spawnBounds' = s.spawnBounds
  /\ savedConditions' = s.savedConditions
  /\ instruction' = s.instruction
  /\ sm' = s.sm

\* the variables outside Scene and the history
RestUnchanged == UNCHANGED << isRandomizeMode, savedPoses, boundsMeshRef, rz, beforeValueRef, beforeBoundsRef >>

----------------------------------------------------------------------------
(* SelectionManager: selection and gizmo attachment *)

AssetTarget(id) == [kind |-> "asset", id |-> id]

BoundsTarget == [kind |-> "bounds", id |-> 0]

\* the state after the constructor
NewSelectionManager ==
  [assets |-> << >>, selectedAsset |-> None, highlightBox |-> None,
   boundsMesh |-> None, isRandomizeMode |-> FALSE, isBoundsSelected |-> FALSE,
   dragStartTransform |-> None, wasDragging |-> FALSE, mouseDownPos |-> None,
   tcObject |-> None, tcMode |-> "translate", tcDragging |-> FALSE, tcStart |-> None,
   ray |-> << >>, pointer |-> [x |-> 0, y |-> 0], travel |-> 0]

\* SelectionManager.select(asset), with the onSelectionChange callback
\* useScene registers (setSelectedAsset)
select(s, asset) ==
  [s EXCEPT !.sm = [@ EXCEPT !.selectedAsset = asset,
                             !.highlightBox = IF IsSome(asset) THEN Some(asset[1].id) ELSE None,
                             !.tcObject = IF IsSome(asset) THEN Some(AssetTarget(asset[1].id)) ELSE None],
            !.selectedAsset = asset]

\* SelectionManager.selectBounds()
selectBounds(s) ==
  IF ~ s.sm.isRandomizeMode \/ ~ IsSome(s.sm.boundsMesh) THEN s
  ELSE [s EXCEPT !.sm = [@ EXCEPT !.highlightBox = None,
                                  !.selectedAsset = None,
                                  !.isBoundsSelected = TRUE,
                                  !.tcObject = Some(BoundsTarget)],
                 !.selectedAsset = None]

----------------------------------------------------------------------------
(* useScene: the internal (history-free) mutations *)

FindAsset(list, id) ==
  IF \E i \in 1..Len(list) : list[i].id = id
  THEN Some(list[CHOOSE i \in 1..Len(list) : list[i].id = id /\ \A j \in 1..(i - 1) : list[j].id # id])
  ELSE None

\* the dynamic filter without its locked test
IsDynamic_ignoresLocked(a) == ~ a.excludeFromExport /\ ~ a.disableGravity

\* lines 444 and 506: exported, under gravity, not locked
IsDynamic(a) == ~ a.excludeFromExport /\ ~ a.disableGravity /\ ~ a.locked

IsStatic(a) == ~ a.excludeFromExport /\ ~ a.locked /\ a.disableGravity

\* the up-axis Euler angle in degrees, as the drag events and the property
\* panel carry it: rotation.y * (180 / PI)
ToDegrees(yaw) == yaw * (360 \div Turn)

\* degrees back to the orientation: deg * (PI / 180)
FromDegrees(deg) == (deg \div (360 \div Turn)) % Turn

\* the { position, rotation, scale } record of an object
TransformRecord(tr) ==
  [position |-> tr.position, rotation |-> ToDegrees(tr.yaw), scale |-> tr.scale]

\* applyTransform(id, position, rotation, scale)
applyTransform(s, id, rec) ==
  IF IsSome(FindAsset(s.assets, id))
  THEN [s EXCEPT !.objects[id] =
          [position |-> rec.position, yaw |-> FromDegrees(rec.rotation), scale |-> rec.scale]]
  ELSE s

\* doAddAsset(asset)
doAddAsset(s, asset) ==
  LET newAssets == Append(s.assets, asset)
  IN  [s EXCEPT !.assets = newAssets, !.sm.assets = newAssets]

\* doRemoveAsset(id) as built in a render whose selectedAsset was sel
doRemoveAsset(s, id, sel) ==
  LET asset == FindAsset(s.assets, id)
      s1 == IF IsSome(asset) /\ IsSome(sel) /\ sel[1].id = id THEN select(s, None) ELSE s
      newAssets == SelectSeq(s.assets, LAMBDA a : a.id # id)
  IN  [s1 EXCEPT !.assets = newAssets, !.sm.assets = newAssets]

\* a toggle that switches gravity off whatever the flag was
doToggleAssetGravity_disable(s, id) ==
  [s EXCEPT !.assets =
     [i \in 1..Len(s.assets) |->
        IF s.assets[i].id = id
        THEN [s.assets[i] EXCEPT !.disableGravity = TRUE]
        ELSE s.assets[i]]]

\* doToggleAssetGravity(id)
doToggleAssetGravity(s, id) ==
  [s EXCEPT !.assets =
     [i \in 1..Len(s.assets) |->
        IF s.assets[i].id = id
        THEN [s.assets[i] EXCEPT !.disableGravity = ~ s.assets[i].disableGravity]
        ELSE s.assets[i]]]

\* applyPoses copying the position only
applyPoses_positionOnly(s, poses) ==
  [s EXCEPT !.objects =
     [id \in DOMAIN s.objects |->
        IF id \in DOMAIN poses /\ IsSome(FindAsset(s.assets, id))
        THEN [s.objects[id] EXCEPT !.position = poses[id].position]
        ELSE s.objects[id]]]

\* applyPoses(poses): position and quaternion of every listed asset that
\* is in the registry
applyPoses(s, poses) ==
  [s EXCEPT !.objects =
     [id \in DOMAIN s.objects |->
        IF id \in DOMAIN poses /\ IsSome(FindAsset(s.assets, id))
        THEN [s.objects[id] EXCEPT !.position = poses[id].position, !.yaw = poses[id].yaw]
        ELSE s.objects[id]]]

DynamicIds(list) == { list[i].id : i \in { j \in 1..Len(list) : IsDynamic(list[j]) } }

\* capturePoses() without the filter: the poses of every asset
capturePoses_everyAsset(s) ==
  [id \in { s.assets[i].id : i \in 1..Len(s.assets) } |->
     [position |-> s.objects[id].position, yaw |-> s.objects[id].yaw]]

\* capturePoses(): the poses of the dynamic assets
capturePoses(s) ==
  [id \in DynamicIds(s.assets) |->
     [position |-> s.objects[id].position, yaw |-> s.objects[id].yaw]]

doAddSavedCondition(s, condition) ==
  [s EXCEPT !.savedConditions = Append(s.savedConditions, condition)]

doRemoveLastSavedCondition(s) ==
  [s EXCEPT !.savedConditions = DropLast(s.savedConditions)]

\* a setter that adds the conditions it is given to the list
doSetSavedConditions_append(s, conditions) ==
  [s EXCEPT !.savedConditions = @ \o conditions]

\* a setter that keeps only the first of the conditions it is given
doSetSavedConditions_firstOnly(s, conditions) ==
  [s EXCEPT !.savedConditions = SubSeq(conditions, 1, Min(1, Len(conditions)))]

\* doSetSavedConditions(conditions)
doSetSavedConditions(s, conditions) ==
  [s EXCEPT !.savedConditions = conditions]

----------------------------------------------------------------------------
(* Commands: the closures each editor operation builds *)

CmdExecute(c, s) ==
  CASE c.type = "transform" -> applyTransform(s, c.id, c.after)
    [] c.type = "instruction" -> [s EXCEPT !.instruction = c.after]
    [] c.type = "spawnBounds" -> [s EXCEPT !.spawnBounds = c.after]
    [] c.type = "addAsset" -> doAddAsset(s, c.asset)
    [] c.type = "removeAsset" -> doRemoveAsset(s, c.id, c.sel)
    [] c.type = "toggleGravity" -> doToggleAssetGravity(s, c.id)
    [] c.type = "randomize" -> applyPoses(s, c.afterPoses)
    [] c.type = "saveCondition" -> doAddSavedCondition(s, c.condition)
    [] c.type = "acceptRandomization" -> doAddSavedCondition(s, c.condition)
    [] c.type = "clearConditions" -> doSetSavedConditions(s, << >>)
    [] c.type = "deleteCondition" -> doSetSavedConditions(s, c.newConditions)
    [] c.type = "loadCondition" -> applyPoses(s, c.afterPoses)

CmdUndo(c, s) ==
  CASE c.type = "transform" -> applyTransform(s, c.id, c.before)
    [] c.type = "instruction" -> [s EXCEPT !.instruction = c.before]
    [] c.type = "spawnBounds" -> [s EXCEPT !.spawnBounds = c.before]
    [] c.type = "addAsset" -> doRemoveAsset(s, c.asset.id, c.sel)
    [] c.type = "removeAsset" ->
         LET s1 == doAddAsset(s, c.asset)
         IN  IF c.wasSelected THEN select(s1, Some(c.asset)) ELSE s1
    [] c.type = "toggleGravity" -> doToggleAssetGravity(s, c.id)
    [] c.type = "randomize" -> applyPoses(s, c.beforePoses)
    [] c.type = "saveCondition" -> doRemoveLastSavedCondition(s)
    [] c.type = "acceptRandomization" -> doRemoveLastSavedCondition(s)
    [] c.type = "clearConditions" -> doSetSavedConditions(s, c.previousConditions)
    [] c.type = "deleteCondition" -> doSetSavedConditions(s, c.previousConditions)
    [] c.type = "loadCondition" -> applyPoses(s, c.beforePoses)

----------------------------------------------------------------------------
(* useHistory *)

\* pushCommand with the trim keeping the oldest MAX_HISTORY_SIZE commands
\* (slice(0, MAX_HISTORY_SIZE)): the new command is the one dropped
pushCommand_trimNewest(undo, command) ==
  LET pushed == Append(undo, command)
  IN  IF Len(pushed) > MAX_HISTORY_SIZE
      THEN SubSeq(pushed, 1, MAX_HISTORY_SIZE)
      ELSE pushed

\* pushCommand(command): the stacks after the push
pushCommand(undo, command) ==
  LET pushed == Append(undo, command)
  IN  IF Len(pushed) > MAX_HISTORY_SIZE
      THEN SliceFrom(pushed, Len(pushed) - MAX_HISTORY_SIZE)
      ELSE pushed

\* pushCommand without the line that clears the redo stack
Push_keepRedo(command) ==
  /\ undoStack' = pushCommand(undoStack, command)
  /\ redoStack' = redoStack
  /\ invoked' = << >>

Push(command) ==
  /\ undoStack' = pushCommand(undoStack, command)
  /\ redoStack' = << >>
  /\ invoked' = << >>

NoPush == UNCHANGED << undoStack, redoStack >> /\ invoked' = << >>

Idle == rz.pc = "idle"

\* no text field has the focus: the other widgets are reached by a click or
\* a key, which takes the focus from the instruction field first
NotTyping == beforeValueRef = None /\ beforeBoundsRef = None

\* nothing else is done while the mouse button holds the gizmo
Ready == Idle /\ NotTyping /\ ~ sm.tcDragging

\* the history with the scene its commands act on
Hist ==
  [undoStack |-> undoStack, redoStack |-> redoStack, invoked |-> invoked, scene |-> Scene]

SetHist(h) ==
  /\ undoStack' = h.undoStack
  /\ redoStack' = h.redoStack
  /\ invoked' = h.invoked
  /\ SetScene(h.scene)

\* undo() without its guard: with an empty stack the command is undefined
\* and calling it throws
undo_noGuard(h) ==
  IF Len(h.undoStack) = 0
  THEN [h EXCEPT !.invoked = << [command |-> [type |-> "undefined"], action |-> "throw"] >>]
  ELSE LET command == h.undoStack[Len(h.undoStack)]
       IN  [undoStack |-> DropLast(h.undoStack),
            scene |-> CmdUndo(command, h.scene),
            invoked |-> << [command |-> command, action |-> "undo"] >>,
            redoStack |-> Append(h.redoStack, command)]

\* undo()
undo(h) ==
  IF Len(h.undoStack) = 0 THEN [h EXCEPT !.invoked = << >>]
  ELSE LET command == h.undoStack[Len(h.undoStack)]
       IN  [undoStack |-> DropLast(h.undoStack),
            scene |-> CmdUndo(command, h.scene),
            invoked |-> << [command |-> command, action |-> "undo"] >>,
            redoStack |-> Append(h.redoStack, command)]

\* redo() calling the command's undo action (copied from undo())
redo_callsUndo(h) ==
  IF Len(h.redoStack) = 0 THEN [h EXCEPT !.invoked = << >>]
  ELSE LET command == h.redoStack[Len(h.redoStack)]
       IN  [redoStack |-> DropLast(h.redoStack),
            scene |-> CmdUndo(command, h.scene),
            invoked |-> << [command |-> command, action |-> "undo"] >>,
            undoStack |-> Append(h.undoStack, command)]

\* redo()
redo(h) ==
  IF Len(h.redoStack) = 0 THEN [h EXCEPT !.invoked = << >>]
  ELSE LET command == h.redoStack[Len(h.redoStack)]
       IN  [redoStack |-> DropLast(h.redoStack),
            scene |-> CmdExecute(command, h.scene),
            invoked |-> << [command |-> command, action |-> "execute"] >>,
            undoStack |-> Append(h.undoStack, command)]

\* undo() reached by a toolbar button or a key chord outside a text field
Undo == Ready /\ SetHist(undo(Hist)) /\ RestUnchanged

\* redo() reached like undo()
Redo == Ready /\ SetHist(redo(Hist)) /\ RestUnchanged

----------------------------------------------------------------------------
(* useScene: the public operations, each one event handler *)

\* addAsset(asset) with a freshly loaded asset
AddAsset(id) ==
  /\ Ready
  /\ id \notin DOMAIN objects
  /\ LET asset == Catalog[id].asset
         s0 == [Scene EXCEPT !.objects = (id :> Catalog[id].at) @@ objects]
     IN  /\ SetScene(doAddAsset(s0, asset))
         /\ Push([type |-> "addAsset", asset |-> asset, sel |-> selectedAsset])
  /\ RestUnchanged

\* removeAsset(id)
RemoveAsset(id) ==
  /\ Ready
  /\ LET asset == FindAsset(assets, id)
     IN  IF ~ IsSome(asset)
         THEN SetScene(Scene) /\ NoPush
         ELSE LET wasSelected == IsSome(selectedAsset) /\ selectedAsset[1].id = id
              IN  /\ SetScene(doRemoveAsset(Scene, id, selectedAsset))
                  /\ Push([type |-> "removeAsset", id |-> id, asset |-> asset[1],
                           wasSelected |-> wasSelected, sel |-> selectedAsset])
  /\ RestUnchanged

\* toggleAssetGravity(id)
ToggleAssetGravity(id) ==
  /\ Ready
  /\ SetScene(doToggleAssetGravity(Scene, id))
  /\ Push([type |-> "toggleGravity", id |-> id])
  /\ RestUnchanged

\* saveCurrentCondition()
SaveCurrentCondition ==
  /\ Ready
  /\ IF DynamicIds(assets) # {}
     THEN LET condition == [poses |-> capturePoses(Scene)]
          IN  /\ SetScene(doAddSavedCondition(Scene, condition))
              /\ Push([type |-> "saveCondition", condition |-> condition])
     ELSE SetScene(Scene) /\ NoPush
  /\ RestUnchanged

\* clearSavedConditions()
ClearSavedConditions ==
  /\ Ready
  /\ LET previousConditions == savedConditions
     IN  IF Len(previousConditions) = 0
         THEN SetScene(Scene) /\ NoPush
         ELSE /\ SetScene(doSetSavedConditions(Scene, << >>))
              /\ Push([type |-> "clearConditions", previousConditions |-> previousConditions])
  /\ RestUnchanged

\* deleteCondition(index) without its range check: filter() drops nothing
\* for an index outside the list, and the command is pushed all the same
DeleteCondition_noRangeCheck(index) ==
  /\ Ready
  /\ LET previousConditions == savedConditions
         newConditions == SelectSeqIdx(previousConditions, 1, index + 1)
     IN  /\ SetScene(doSetSavedConditions(Scene, newConditions))
         /\ Push([type |-> "deleteCondition", newConditions |-> newConditions,
                  previousConditions |-> previousConditions])
  /\ RestUnchanged

\* deleteCondition(index), index counted from 0
DeleteCondition(index) ==
  /\ Ready
  /\ LET previousConditions == savedConditions
     IN  IF index < 0 \/ index >= Len(previousConditions)
         THEN SetScene(Scene) /\ NoPush
         ELSE LET newConditions == SelectSeqIdx(previousConditions, 1, index + 1)
              IN  /\ SetScene(doSetSavedConditions(Scene, newConditions))
                  /\ Push([type |-> "deleteCondition", newConditions |-> newConditions,
                           previousConditions |-> previousConditions])
  /\ RestUnchanged

\* loadCondition(index), index counted from 0
LoadCondition(index) ==
  /\ Ready
  /\ IF index < 0 \/ index >= Len(savedConditions)
     THEN SetScene(Scene) /\ NoPush
     ELSE LET condition == savedConditions[index + 1]
              beforePoses == capturePoses(Scene)
              s1 == applyPoses(Scene, condition.poses)
              afterPoses == capturePoses(s1)
          IN  /\ SetScene(s1)
              /\ Push([type |-> "loadCondition", beforePoses |-> beforePoses,
                       afterPoses |-> afterPoses])
  /\ RestUnchanged

----------------------------------------------------------------------------
(* useScene: Randomize mode and the bounds proxy *)

\* createBoundsMesh(bounds): a PlaneGeometry(sizeX, sizeY) laid flat, at
\* (centerX, 0, -centerY); the scale is held in thousandths
createBoundsMesh(bounds) ==
  LET sizeX == bounds.maxX - bounds.minX
      sizeY == bounds.maxY - bounds.minY
      centerX == (bounds.minX + bounds.maxX) \div 2
      centerY == (bounds.minY + bounds.maxY) \div 2
  IN  [width |-> sizeX, height |-> sizeY,
       position |-> [x |-> centerX, y |-> 0, z |-> -centerY],
       scale |-> [x |-> Milli, y |-> Milli, z |-> Milli]]

\* SelectionManager.attachToBoundsMesh(mesh, onBoundsChange)
attachToBoundsMesh(m) ==
  [m EXCEPT !.boundsMesh = Some("boundsMesh"),
            !.isRandomizeMode = TRUE,
            !.isBoundsSelected = TRUE,
            !.tcObject = Some(BoundsTarget),
            !.tcMode = "translate"]

\* detachBoundsMesh() leaving the selected flag as it was
detachBoundsMesh_keepsFlag(m) ==
  [m EXCEPT !.boundsMesh = None,
            !.isRandomizeMode = FALSE,
            !.tcObject = None]

\* SelectionManager.detachBoundsMesh()
detachBoundsMesh(m) ==
  [m EXCEPT !.boundsMesh = None,
            !.isRandomizeMode = FALSE,
            !.isBoundsSelected = FALSE,
            !.tcObject = None]

\* useScene.selectAsset(asset): selectionManager.select(asset)
SelectAsset(asset) ==
  /\ Ready
  /\ SetScene(select(Scene, asset))
  /\ NoPush
  /\ RestUnchanged

\* RandomizationPanel: canRandomize
canRandomize(list) ==
  /\ \E i \in 1..Len(list) : IsDynamic(list[i])
  /\ \E i \in 1..Len(list) : IsStatic(list[i])

\* enterRandomizeMode() on a scene (the mesh is set beside it)
enterRandomizeMode(s) ==
  LET s1 == select(s, None)
  IN  [s1 EXCEPT !.sm = attachToBoundsMesh(s1.sm)]

\* RandomizationPanel.handleEnterRandomize: the button of the closed panel
EnterRandomizeMode ==
  /\ Ready
  /\ ~ isRandomizeMode
  /\ IF ~ canRandomize(assets)
     THEN /\ SetScene(Scene)
          /\ UNCHANGED << isRandomizeMode, boundsMeshRef >>
     ELSE /\ SetScene(enterRandomizeMode(Scene))
          /\ isRandomizeMode' = TRUE
          /\ boundsMeshRef' = Some(createBoundsMesh(spawnBounds))
  /\ NoPush
  /\ UNCHANGED << savedPoses, rz, beforeValueRef, beforeBoundsRef >>

\* exitRandomizeMode(): the close button of the open panel
ExitRandomizeMode ==
  /\ Ready
  /\ isRandomizeMode
  /\ isRandomizeMode' = FALSE
  /\ SetScene([Scene EXCEPT !.sm = detachBoundsMesh(sm)])
  /\ boundsMeshRef' = None
  /\ savedPoses' = None
  /\ NoPush
  /\ UNCHANGED << rz, beforeValueRef, beforeBoundsRef >>

----------------------------------------------------------------------------
(* useScene: randomized placement.  randomizeNonStaticAssets runs as one    *)
(* handler; its placement loop is unfolded into one step per attempt, with  *)
(* no other handler in between (Idle).                                      *)

\* Box3.getSize
BoxSize(box) ==
  [x |-> box.maxX - box.minX, y |-> box.maxY - box.minY, z |-> box.maxZ - box.minZ]

\* getAssetLocalSize(asset, useRotation): the extent at the origin under
\* the given orientation, the scale kept
getAssetLocalSize(id, tr, yaw) ==
  BoxSize(WorldBox(Geo(id), [tr EXCEPT !.position = [x |-> 0, y |-> 0, z |-> 0], !.yaw = yaw]))

\* lines 536-539: the rectangle shrunk by the footprint radius
Shrunk(bounds, maxHorizontalExtent) ==
  [minX |-> bounds.minX + maxHorizontalExtent,
   maxX |-> bounds.maxX - maxHorizontalExtent,
   minY |-> bounds.minY + maxHorizontalExtent,
   maxY |-> bounds.maxY - maxHorizontalExtent]

\* lines 531-533
MaxHorizontalExtent(assetSize) == Max(assetSize.x, assetSize.z) \div 2

ValidBounds(id, tr, yaw, bounds) ==
  Shrunk(bounds, MaxHorizontalExtent(getAssetLocalSize(id, tr, yaw)))

\* line 542
canFit(valid) == valid.minX < valid.maxX /\ valid.minY < valid.maxY

\* Math.random() * range for the draw k / den
RandomTimes(k, den, range) == (k * range) \div den

\* the registry order of the dynamic assets
DynamicSeq(list) ==
  LET dyn == SelectSeq(list, IsDynamic)
  IN  [i \in 1..Len(dyn) |-> dyn[i].id]

\* randomizeNonStaticAssets(), up to the first placement attempt
randomizeBegin(bounds, pending) ==
  \E beforePoses \in {capturePoses(Scene)} :
    IF DOMAIN beforePoses = {}
    THEN /\ savedPoses' = savedPoses
         /\ rz' = [rz EXCEPT !.pending = pending]
    ELSE /\ savedPoses' = Some(beforePoses)
         /\ rz' = [pc |-> "placing", dynamicAssets |-> DynamicSeq(assets),
                   poses |-> beforePoses, placedBoxes |-> << >>,
                   index |-> 1, attempt |-> 0, placed |-> FALSE,
                   bounds |-> bounds,
                   beforePoses |-> beforePoses, objects0 |-> objects, log |-> << >>,
                   pending |-> pending]

\* the Randomize button of the open panel
RandomizeStart ==
  /\ Ready
  /\ isRandomizeMode
  /\ randomizeBegin(spawnBounds, rz.pending)
  /\ SetScene(Scene) /\ NoPush
  /\ UNCHANGED << isRandomizeMode, boundsMeshRef, beforeValueRef, beforeBoundsRef >>

\* the deferred call dropped when Randomize mode was left before it fires
DeferredRandomize_onlyInMode ==
  /\ Idle
  /\ rz.pending # << >>
  /\ IF isRandomizeMode
     THEN randomizeBegin(Head(rz.pending), Tail(rz.pending))
     ELSE savedPoses' = savedPoses /\ rz' = [rz EXCEPT !.pending = Tail(@)]
  /\ SetScene(Scene) /\ NoPush
  /\ UNCHANGED << isRandomizeMode, boundsMeshRef, beforeValueRef, beforeBoundsRef >>

\* the callback acceptRandomization left with setTimeout(..., 0) runs (lines
\* 695-697): randomizeNonStaticAssets of the render that scheduled it, with
\* the spawn bounds of that render
DeferredRandomize ==
  /\ Idle
  /\ rz.pending # << >>
  /\ randomizeBegin(Head(rz.pending), Tail(rz.pending))
  /\ SetScene(Scene) /\ NoPush
  /\ UNCHANGED << isRandomizeMode, boundsMeshRef, beforeValueRef, beforeBoundsRef >>

\* acceptRandomization() saving the poses kept in savedPoses
AcceptRandomization_savedPoses ==
  /\ Ready /\ isRandomizeMode /\ IsSome(savedPoses)
  /\ IF DynamicIds(assets) # {}
     THEN \E condition \in {[poses |-> savedPoses[1]]} :
            /\ SetScene(doAddSavedCondition(Scene, condition))
            /\ Push([type |-> "acceptRandomization", condition |-> condition])
     ELSE SetScene(Scene) /\ NoPush
  /\ savedPoses' = None
  /\ rz' = [rz EXCEPT !.pending = Append(@, spawnBounds)]
  /\ UNCHANGED << isRandomizeMode, boundsMeshRef, beforeValueRef, beforeBoundsRef >>

\* acceptRandomization(): the Save & Next button, shown in the open panel
\* while savedPoses is set
AcceptRandomization ==
  /\ Ready
  /\ isRandomizeMode /\ IsSome(savedPoses)
  /\ IF DynamicIds(assets) # {}
     THEN \E condition \in {[poses |-> capturePoses(Scene)]} :
            /\ SetScene(doAddSavedCondition(Scene, condition))
            /\ Push([type |-> "acceptRandomization", condition |-> condition])
     ELSE SetScene(Scene) /\ NoPush
  /\ savedPoses' = None
  /\ rz' = [rz EXCEPT !.pending = Append(@, spawnBounds)]
  /\ UNCHANGED << isRandomizeMode, boundsMeshRef, beforeValueRef, beforeBoundsRef >>

Placing == rz.pc = "placing" /\ rz.index <= Len(rz.dynamicAssets)

\* lines 550-572: the candidate pose for the draws kx/den, kz/den (position)
\* and kr eighths of a turn (rotation about the up axis)
Candidate(tr, savedPose, valid, bounds, kx, kz, kr, den) ==
  [tr EXCEPT
     !.position =
        IF canFit(valid)
        THEN [x |-> valid.minX + RandomTimes(kx, den, valid.maxX - valid.minX),
              y |-> savedPose.position.y,
              z |-> -(valid.minY + RandomTimes(kz, den, valid.maxY - valid.minY))]
        ELSE [x |-> (bounds.minX + bounds.maxX) \div 2,
              y |-> savedPose.position.y,
              z |-> -((bounds.minY + bounds.maxY) \div 2)],
     !.yaw = (savedPose.yaw + kr) % Turn]

\* a candidate accepted whenever it lies within the rectangle
Accepted_ignoresCollision(assetBox, placedBoxes, bounds, fits) ==
  isBoxWithinSpawnBounds(assetBox, bounds) \/ ~ fits

\* lines 574-595: is the candidate accepted?
Accepted(assetBox, placedBoxes, bounds, fits) ==
  LET hasCollision == \E i \in 1..Len(placedBoxes) : checkCollision(assetBox, placedBoxes[i])
  IN  \/ ~ hasCollision /\ isBoxWithinSpawnBounds(assetBox, bounds)
      \/ ~ fits /\ ~ hasCollision

\* the loop running one attempt too many
LoopContinues_offByOne == rz.attempt <= maxAttempts /\ ~ rz.placed

\* line 547: attempt < maxAttempts && !placed
LoopContinues == rz.attempt < maxAttempts /\ ~ rz.placed

\* one pass of the attempt loop (lines 547-596)
RandomizeAttempt(kx, kz, kr, den) ==
  /\ Placing
  /\ LoopContinues
  /\ \E id \in {rz.dynamicAssets[rz.index]} :
     \E valid \in {ValidBounds(id, objects[id], rz.poses[id].yaw, rz.bounds)} :
     \E moved \in {Candidate(objects[id], rz.poses[id], valid, rz.bounds, kx, kz, kr, den)} :
     \E assetBox \in {WorldBox(Geo(id), moved)} :
     \E accept \in {Accepted(assetBox, rz.placedBoxes, rz.bounds, canFit(valid))} :
       /\ objects' = [objects EXCEPT ![id] = moved]
       /\ rz' = [rz EXCEPT !.attempt = @ + 1,
                           !.placed = accept,
                           !.placedBoxes = IF accept THEN Append(@, assetBox) ELSE @]
  /\ UNCHANGED << assets, selectedAsset, isRandomizeMode, spawnBounds, savedPoses,
                  savedConditions, instruction, boundsMeshRef, undoStack, redoStack,
                  invoked, sm, beforeValueRef, beforeBoundsRef >>

\* the loop over the assets pushing a command of its own for every asset
RandomizeNextAsset_pushesPerAsset ==
  /\ Placing
  /\ ~ LoopContinues
  /\ \E id \in {rz.dynamicAssets[rz.index]} :
     \E valid \in {ValidBounds(id, objects[id], rz.poses[id].yaw, rz.bounds)} :
       /\ rz' = [rz EXCEPT !.placedBoxes = IF rz.placed THEN @
                                           ELSE Append(@, WorldBox(Geo(id), objects[id])),
                           !.log = Append(@, [id |-> id, canFit |-> canFit(valid),
                                              placed |-> rz.placed]),
                           !.index = @ + 1,
                           !.attempt = 0,
                           !.placed = FALSE]
       /\ Push([type |-> "randomize", beforePoses |-> (id :> rz.beforePoses[id]),
                afterPoses |-> (id :> capturePoses(Scene)[id])])
  /\ SetScene(Scene)
  /\ UNCHANGED << isRandomizeMode, savedPoses, boundsMeshRef, beforeValueRef, beforeBoundsRef >>

\* the attempt loop is left (lines 598-602): an asset that was not placed
\* keeps its last pose and its box is recorded; on to the next asset
RandomizeNextAsset ==
  /\ Placing
  /\ ~ LoopContinues
  /\ \E id \in {rz.dynamicAssets[rz.index]} :
     \E valid \in {ValidBounds(id, objects[id], rz.poses[id].yaw, rz.bounds)} :
       rz' = [rz EXCEPT !.placedBoxes = IF rz.placed THEN @
                                        ELSE Append(@, WorldBox(Geo(id), objects[id])),
                        !.log = Append(@, [id |-> id, canFit |-> canFit(valid),
                                           placed |-> rz.placed]),
                        !.index = @ + 1,
                        !.attempt = 0,
                        !.placed = FALSE]
  /\ UNCHANGED << assets, objects, selectedAsset, isRandomizeMode, spawnBounds, savedPoses,
                  savedConditions, instruction, boundsMeshRef, undoStack, redoStack,
                  invoked, sm, beforeValueRef, beforeBoundsRef >>

\* every asset is done: back in randomizeNonStaticAssets (lines 615-622)
RandomizeFinish ==
  /\ rz.pc = "placing"
  /\ rz.index > Len(rz.dynamicAssets)
  /\ LET afterPoses == capturePoses(Scene)
     IN  Push([type |-> "randomize", beforePoses |-> rz.beforePoses, afterPoses |-> afterPoses])
  /\ rz' = [rz EXCEPT !.pc = "idle"]
  /\ SetScene(Scene)
  /\ UNCHANGED << isRandomizeMode, savedPoses, boundsMeshRef, beforeValueRef, beforeBoundsRef >>

----------------------------------------------------------------------------
(* SelectionManager: mouse and keyboard on the viewport, and the gizmo *)

\* this.mouseDownPos and the click position, in pixels
Pixel(x, y) == [x |-> x, y |-> y]

\* onMouseDown; the way the pointer travels is counted from here
MouseDown(pos) ==
  /\ Idle
  /\ SetScene([Scene EXCEPT !.sm = [@ EXCEPT !.mouseDownPos = Some(pos), !.wasDragging = FALSE,
                                             !.travel = 0]])
  /\ NoPush
  /\ RestUnchanged

\* the length of the straight way from a to b, in whole pixels
Distance(a, b) ==
  SetMax({ d \in 0..MaxTravel :
             d * d <= (b.x - a.x) * (b.x - a.x) + (b.y - a.y) * (b.y - a.y) })

\* the pointer moves over the viewport while the gizmo is not held (with
\* the button down this is an orbit drag of the camera): the selection
\* manager listens to mousedown and click only, so none of its fields
\* changes; where the pointer is and how far it has come are the mouse's
PointerMove(pos) ==
  /\ Idle /\ ~ sm.tcDragging
  /\ pos # sm.pointer
  /\ SetScene([Scene EXCEPT !.sm = [@ EXCEPT !.pointer = pos,
                  !.travel = Min(MaxTravel, @ + Distance(sm.pointer, pos))]])
  /\ NoPush
  /\ RestUnchanged

\* a pick that takes the locked assets too
Pickable_any(a) == TRUE

\* lines 298 and 312: if (asset.locked) continue
Pickable(a) == ~ a.locked

\* lines 295-306: the ray meets the geometry of the assets in under, nearest
\* first; only the meshes of the pickable assets of this.assets are tested
Intersects(m, under) ==
  SelectSeq(under, LAMBDA id : \E i \in 1..Len(m.assets) : m.assets[i].id = id /\ Pickable(m.assets[i]))

\* lines 311-325: the first pickable asset that owns the hit mesh
Owner(m, id) ==
  LET owners == SelectSeq(m.assets, LAMBDA a : a.id = id /\ Pickable(a))
  IN  IF owners = << >> THEN None ELSE Some(owners[1])

\* the pick whose miss branch deselects in either mode
Pick_missDeselects(s, under) ==
  IF Intersects(s.sm, under) # << >>
  THEN IF IsSome(Owner(s.sm, Intersects(s.sm, under)[1]))
       THEN select([s EXCEPT !.sm.isBoundsSelected = IF s.sm.isRandomizeMode THEN FALSE ELSE @],
                   Owner(s.sm, Intersects(s.sm, under)[1]))
       ELSE s
  ELSE select(s, None)

\* the pick whose hit branch leaves isBoundsSelected as it was
Pick_keepsBoundsFlag(s, under) ==
  IF Intersects(s.sm, under) # << >>
  THEN IF IsSome(Owner(s.sm, Intersects(s.sm, under)[1]))
       THEN select(s, Owner(s.sm, Intersects(s.sm, under)[1]))
       ELSE s
  ELSE IF s.sm.isRandomizeMode THEN selectBounds(s)
       ELSE select(s, None)

\* lines 289-335: the pick of onClick
Pick(s, under) ==
  IF Intersects(s.sm, under) # << >>
  THEN IF IsSome(Owner(s.sm, Intersects(s.sm, under)[1]))
       THEN select([s EXCEPT !.sm.isBoundsSelected = IF s.sm.isRandomizeMode THEN FALSE ELSE @],
                   Owner(s.sm, Intersects(s.sm, under)[1]))
       ELSE s
  ELSE IF s.sm.isRandomizeMode THEN selectBounds(s)
       ELSE select(s, None)

\* line 281: distance > 5, squared
MovedTooFar(from, to) ==
  (to.x - from.x) * (to.x - from.x) + (to.y - from.y) * (to.y - from.y)
    > ClickThreshold * ClickThreshold

\* onClick without the test of wasDragging (lines 271-274)
onClick_noDragTest(s, pos, under) ==
  IF s.sm.tcDragging THEN s
  ELSE IF IsSome(s.sm.mouseDownPos) /\ MovedTooFar(s.sm.mouseDownPos[1], pos)
       THEN [s EXCEPT !.sm.mouseDownPos = None]
  ELSE Pick([s EXCEPT !.sm.mouseDownPos = None, !.sm.ray = under], under)

\* onClick
onClick(s, pos, under) ==
  IF s.sm.tcDragging THEN s
  ELSE IF s.sm.wasDragging THEN [s EXCEPT !.sm.wasDragging = FALSE]
  ELSE IF IsSome(s.sm.mouseDownPos) /\ MovedTooFar(s.sm.mouseDownPos[1], pos)
       THEN [s EXCEPT !.sm.mouseDownPos = None]
  ELSE Pick([s EXCEPT !.sm.mouseDownPos = None, !.sm.ray = under], under)

Click(pos, under) ==
  /\ Idle
  /\ SetScene(onClick(Scene, pos, under))
  /\ NoPush
  /\ RestUnchanged

\* the key event's target is an <input>: a bounds input has the focus
TargetIsInput == IsSome(beforeBoundsRef)

\* the focus is in a text field: a bounds input or the instruction textarea
InTextField == IsSome(beforeBoundsRef) \/ IsSome(beforeValueRef)

\* onKeyDown; line 340 returns for an HTMLInputElement target only, so a
\* key typed into the instruction textarea is handled too
KeyDown(key) ==
  /\ Idle /\ ~ sm.tcDragging
  /\ SetScene(CASE TargetIsInput -> Scene
                [] key = "g" -> [Scene EXCEPT !.sm.tcMode = "translate"]
                [] key = "r" -> [Scene EXCEPT !.sm.tcMode = "rotate"]
                [] key = "s" -> [Scene EXCEPT !.sm.tcMode = "scale"]
                [] key = "escape" -> select(Scene, None)
                [] OTHER -> Scene)
  /\ NoPush
  /\ RestUnchanged

\* updateBoundsFromMesh(mesh) (lines 313-330); the scale is in thousandths
updateBoundsFromMesh(mesh) ==
  LET sizeX == (mesh.width * mesh.scale.x) \div Milli
      sizeY == (mesh.height * mesh.scale.z) \div Milli
  IN  [minX |-> mesh.position.x - sizeX \div 2,
       maxX |-> mesh.position.x + sizeX \div 2,
       minY |-> -mesh.position.z - sizeY \div 2,
       maxY |-> -mesh.position.z + sizeY \div 2]

\* the transform the gizmo holds: of the attached asset or of the proxy
TargetTransform(target) ==
  IF target.kind = "asset" THEN objects[target.id]
  ELSE [position |-> boundsMeshRef[1].position, yaw |-> 0, scale |-> 1]

\* the drag listener's condition (line 83)
TracksAsset(m) == IsSome(m.selectedAsset) /\ (~ m.isRandomizeMode \/ ~ m.isBoundsSelected)

\* pointer down on the gizmo: 'dragging-changed' with value true
GizmoDragStart ==
  /\ Ready
  /\ IsSome(sm.tcObject)
  /\ sm.tcObject[1].kind = "asset" \/ IsSome(boundsMeshRef)
  /\ SetScene([Scene EXCEPT !.sm =
       [@ EXCEPT !.tcDragging = TRUE,
                 !.tcStart = Some(TargetTransform(sm.tcObject[1])),
                 !.wasDragging = TRUE,
                 !.dragStartTransform =
                    IF TracksAsset(sm)
                    THEN Some(TransformRecord(objects[sm.selectedAsset[1].id]))
                    ELSE @]])
  /\ NoPush
  /\ RestUnchanged

\* what the gizmo makes of the transform at the start of the drag for the
\* pointer offset d, in its mode
Dragged(start, mode, d) ==
  CASE mode = "translate" -> [start EXCEPT !.position.x = @ + mm(d)]
    [] mode = "rotate" -> [start EXCEPT !.yaw = (@ + d) % Turn]
    [] mode = "scale" -> [start EXCEPT !.scale = @ + 1]

\* pointer move during a drag: the gizmo moves the attached object and
\* fires 'change' (lines 119-138)
GizmoDragMove(d) ==
  /\ Idle
  /\ sm.tcDragging
  /\ IF sm.tcObject[1].kind = "asset"
     THEN /\ objects' = [objects EXCEPT ![sm.tcObject[1].id] = Dragged(sm.tcStart[1], sm.tcMode, d)]
          /\ boundsMeshRef' = boundsMeshRef
     ELSE /\ objects' = objects
          /\ boundsMeshRef' = Some([boundsMeshRef[1] EXCEPT
                                      !.position.x = sm.tcStart[1].position.x + mm(d)])
  /\ IF sm.isRandomizeMode /\ IsSome(sm.boundsMesh)
     THEN spawnBounds' = updateBoundsFromMesh(boundsMeshRef'[1])
     ELSE spawnBounds' = spawnBounds
  /\ NoPush
  /\ UNCHANGED << assets, selectedAsset, isRandomizeMode, savedPoses, savedConditions,
                  instruction, sm, rz, beforeValueRef, beforeBoundsRef >>

\* the size of the proxy in the world, as Box3.setFromObject(mesh) measures it
\* (lines 336, 370): the plane spans width x height on its own X and Y
\* axes, rotation.x = -PI/2 (line 307) lays its Y axis along the world's -Z,
\* and the scale acts on the mesh's own axes
ProxyExtent(mesh) ==
  [x |-> (mesh.width * mesh.scale.x) \div Milli,
   z |-> (mesh.height * mesh.scale.y) \div Milli]

\* what the gizmo makes of the proxy for the handle of one axis and the
\* pointer offset d: a translation from where the drag started, a scale of
\* 1 + d/2 on the handle's axis of a proxy that had scale 1, or a rotation,
\* which is not among the fields the bounds are read from
DraggedProxy(mesh, start, mode, axis, d) ==
  CASE mode = "translate" -> [mesh EXCEPT !.position[axis] = start.position[axis] + mm(d)]
    [] mode = "scale" -> [mesh EXCEPT !.scale[axis] = (Milli * (2 + d)) \div 2]
    [] mode = "rotate" -> mesh

\* pointer move during a drag of the proxy on the handle of one axis: the
\* gizmo moves the mesh and fires 'change' (lines 134-137)
ProxyDragMove(axis, d) ==
  /\ Idle
  /\ sm.tcDragging
  /\ sm.tcObject[1].kind = "bounds"
  /\ IsSome(boundsMeshRef)
  /\ boundsMeshRef' = Some(DraggedProxy(boundsMeshRef[1], sm.tcStart[1], sm.tcMode, axis, d))
  /\ IF sm.isRandomizeMode /\ IsSome(sm.boundsMesh)
     THEN spawnBounds' = updateBoundsFromMesh(boundsMeshRef'[1])
     ELSE spawnBounds' = spawnBounds
  /\ NoPush
  /\ UNCHANGED << assets, objects, selectedAsset, isRandomizeMode, savedPoses, savedConditions,
                  instruction, sm, rz, beforeValueRef, beforeBoundsRef >>

\* pointer up: 'dragging-changed' with value false (lines 96-114), and
\* handleTransformDragEnd
GizmoDragEnd ==
  /\ Idle
  /\ sm.tcDragging
  /\ SetScene([Scene EXCEPT !.sm =
       [@ EXCEPT !.tcDragging = FALSE,
                 !.tcStart = None,
                 !.dragStartTransform = IF TracksAsset(sm) THEN None ELSE @]])
  /\ IF TracksAsset(sm) /\ IsSome(sm.dragStartTransform)
     THEN Push([type |-> "transform", id |-> sm.selectedAsset[1].id,
                before |-> sm.dragStartTransform[1],
                after |-> TransformRecord(objects[sm.selectedAsset[1].id])])
     ELSE NoPush
  /\ RestUnchanged

----------------------------------------------------------------------------
(* App: the undo and redo key chords *)

\* a keydown event on the Z or the Y key: KeyboardEvent.key is the
\* character the key gives, so with Shift held the Z key reports "Z" or,
\* where the platform ignores Shift beside Cmd, "z"
KeyEvents ==
  { e \in [ctrlKey : BOOLEAN, metaKey : BOOLEAN, shiftKey : BOOLEAN, key : { "z", "Z", "y" }] :
      e.key = "Z" => e.shiftKey }

\* handleKeyDown(e) of App (lines 17-36) on the history; inField: the
\* target is an input or a textarea
handleKeyDown(h, e, inField) ==
  IF inField THEN [h EXCEPT !.invoked = << >>]
  ELSE LET h0 == [h EXCEPT !.invoked = << >>]
           h1 == IF (e.ctrlKey \/ e.metaKey) /\ e.key = "z"
                 THEN IF e.shiftKey THEN redo(h0) ELSE undo(h0)
                 ELSE h0
       IN  IF (e.ctrlKey \/ e.metaKey) /\ e.key = "y" THEN redo(h1) ELSE h1

\* a keydown event reaches the window listener of App
AppKeyDown(e) ==
  /\ Idle /\ ~ sm.tcDragging
  /\ SetHist(handleKeyDown(Hist, e, InTextField))
  /\ RestUnchanged

----------------------------------------------------------------------------
(* InstructionPanel *)

\* handleFocus
InstrFocus ==
  /\ Ready
  /\ beforeValueRef' = Some(instruction)
  /\ SetScene(Scene) /\ NoPush
  /\ UNCHANGED << isRandomizeMode, savedPoses, boundsMeshRef, rz, beforeBoundsRef >>

\* onInput: setInstruction(value)
InstrInput(text) ==
  /\ Idle
  /\ IsSome(beforeValueRef)
  /\ SetScene([Scene EXCEPT !.instruction = text]) /\ NoPush
  /\ RestUnchanged

\* handleBlur without the comparison of the two texts
InstrBlur_alwaysPushes ==
  /\ Idle
  /\ IsSome(beforeValueRef)
  /\ Push([type |-> "instruction", before |-> beforeValueRef[1], after |-> instruction])
  /\ beforeValueRef' = None
  /\ SetScene(Scene)
  /\ UNCHANGED << isRandomizeMode, savedPoses, boundsMeshRef, rz, beforeBoundsRef >>

\* handleBlur, with createInstructionCommand
InstrBlur ==
  /\ Idle
  /\ IsSome(beforeValueRef)
  /\ IF beforeValueRef[1] # instruction
     THEN Push([type |-> "instruction", before |-> beforeValueRef[1], after |-> instruction])
     ELSE NoPush
  /\ beforeValueRef' = None
  /\ SetScene(Scene)
  /\ UNCHANGED << isRandomizeMode, savedPoses, boundsMeshRef, rz, beforeBoundsRef >>

----------------------------------------------------------------------------
(* RandomizationPanel: the four bounds inputs of the open panel, shown     *)
(* while no asset is selected                                               *)

\* setSpawnBounds(bounds): the state, and in Randomize mode a new proxy
\* mesh with the gizmo attached to it
setSpawnBounds(bounds) ==
  /\ IF isRandomizeMode /\ IsSome(boundsMeshRef)
     THEN /\ boundsMeshRef' = Some(createBoundsMesh(bounds))
          /\ SetScene([Scene EXCEPT !.spawnBounds = bounds, !.sm = attachToBoundsMesh(sm)])
     ELSE /\ boundsMeshRef' = boundsMeshRef
          /\ SetScene([Scene EXCEPT !.spawnBounds = bounds])

\* handleBoundsFocus
BoundsFocus ==
  /\ Ready
  /\ isRandomizeMode /\ selectedAsset = None
  /\ beforeBoundsRef' = IF beforeBoundsRef = None THEN Some(spawnBounds) ELSE beforeBoundsRef
  /\ SetScene(Scene) /\ NoPush
  /\ UNCHANGED << isRandomizeMode, savedPoses, boundsMeshRef, rz, beforeValueRef >>

\* handleBoundsChange(key, value) with the number num typed
BoundsChange(key, num) ==
  /\ Idle
  /\ IsSome(beforeBoundsRef)
  /\ setSpawnBounds([spawnBounds EXCEPT ![key] = num])
  /\ NoPush
  /\ UNCHANGED << isRandomizeMode, savedPoses, rz, beforeValueRef, beforeBoundsRef >>

\* boundsEqual(a, b)
boundsEqual(a, b) ==
  a.minX = b.minX /\ a.maxX = b.maxX /\ a.minY = b.minY /\ a.maxY = b.maxY

\* handleBoundsBlur, with createSpawnBoundsCommand
BoundsBlur ==
  /\ Idle
  /\ IsSome(beforeBoundsRef)
  /\ IF ~ boundsEqual(beforeBoundsRef[1], spawnBounds)
     THEN Push([type |-> "spawnBounds", before |-> beforeBoundsRef[1], after |-> spawnBounds])
     ELSE NoPush
  /\ beforeBoundsRef' = None
  /\ SetScene(Scene)
  /\ UNCHANGED << isRandomizeMode, savedPoses, boundsMeshRef, rz, beforeValueRef >>

----------------------------------------------------------------------------
(* The editor after construction (initScene done, nothing loaded) *)

NoRandomize ==
  [pc |-> "idle", dynamicAssets |-> << >>, poses |-> << >>, placedBoxes |-> << >>,
   index |-> 0, attempt |-> 0, placed |-> FALSE, bounds |-> DEFAULT_SPAWN_BOUNDS,
   beforePoses |-> << >>, objects0 |-> << >>, log |-> << >>, pending |-> << >>]

Init ==
  /\ assets = << >>
  /\ objects = << >>
  /\ selectedAsset = None
  /\ isRandomizeMode = FALSE
  /\ spawnBounds = DEFAULT_SPAWN_BOUNDS
  /\ savedPoses = None
  /\ savedConditions = << >>
  /\ instruction = 0
  /\ boundsMeshRef = None
  /\ undoStack = << >>
  /\ redoStack = << >>
  /\ invoked = << >>
  /\ sm = NewSelectionManager
  /\ rz = NoRandomize
  /\ beforeValueRef = None
  /\ beforeBoundsRef = None

----------------------------------------------------------------------------
(* The history alone: one keystroke per visit of the instruction field,    *)
(* each typing the next text, so that every command on the stacks differs  *)
(* from the others and the undo stack fills past MAX_HISTORY_SIZE.         *)

TypeNext ==
  /\ IsSome(beforeValueRef)
  /\ instruction = beforeValueRef[1]
  /\ instruction < MaxText
  /\ InstrInput(instruction + 1)

NextHist == InstrFocus \/ TypeNext \/ InstrBlur \/ Undo \/ Redo

SpecHist == Init /\ [][NextHist]_vars

----------------------------------------------------------------------------
(* Placement: scenes are loaded asset by asset, Randomize mode is entered,  *)
(* randomizeNonStaticAssets runs once, and the history is walked.           *)

\* the orders in which assets are loaded
Scenes ==
  { << 4, 5, 2, 1, 3 >>, << 2, 1, 6 >> }

\* Math.random() for the rotation draws 0 or an eighth of a turn
RotDraws == {0, 1}

LoadedIds == [i \in 1..Len(assets) |-> assets[i].id]

\* the asset panel loads the next asset of one of the orders in scenes
LoadFrom(scenes) ==
  \E id \in AssetIds :
    /\ \E sc \in scenes :
         /\ Len(sc) > Len(assets)
         /\ SubSeq(sc, 1, Len(assets) + 1) = Append(LoadedIds, id)
    /\ AddAsset(id)

LoadNext == LoadFrom(Scenes)

\* the first invocation of a behaviour
FirstRandomize == rz.objects0 = << >> /\ RandomizeStart

RandomizeSteps ==
  \/ \E kx, kz \in 0..(RandDen - 1) : \E kr \in RotDraws : RandomizeAttempt(kx, kz, kr, RandDen)
  \/ RandomizeNextAsset
  \/ RandomizeFinish

NextRand ==
  \/ LoadNext
  \/ EnterRandomizeMode
  \/ FirstRandomize
  \/ RandomizeSteps
  \/ Undo
  \/ Redo

SpecRand == Init /\ [][NextRand]_vars

----------------------------------------------------------------------------
(* Picking: a scene with a locked backdrop in front of the others is       *)
(* loaded; then come clicks and keys on the viewport and gizmo drags of the *)
(* selected asset, in and out of Randomize mode.                            *)

PickScenes == { << 4, 2, 1 >> }

\* where the mouse button goes down, and where it is released
DownPixels == { Pixel(0, 0) }

UpPixels == { Pixel(0, 0), Pixel(3, 4), Pixel(6, 0) }

\* what lies under the cursor, nearest first
Rays == { << >>, << 4 >>, << 4, 1 >>, << 2, 4 >>, << 1, 2 >> }

Keys == { "g", "r", "escape" }

\* pointer offsets of a drag
Offsets == { 1 }

\* the gizmo is on an asset and is grabbed
AssetDragStart == sm.tcObject # None /\ sm.tcObject[1].kind = "asset" /\ GizmoDragStart

\* the viewport has not been used yet
Untouched == sm = [NewSelectionManager EXCEPT !.assets = assets] /\ ~ isRandomizeMode

NextPick ==
  \/ Untouched /\ LoadFrom(PickScenes)
  \/ EnterRandomizeMode
  \/ ExitRandomizeMode
  \/ \E pos \in DownPixels : MouseDown(pos)
  \/ \E pos \in UpPixels : \E under \in Rays : Click(pos, under)
  \/ \E key \in Keys : KeyDown(key)
  \/ Len(undoStack) < Len(assets) + MaxDrags /\ AssetDragStart
  \/ \E d \in Offsets : GizmoDragMove(d)
  \/ GizmoDragEnd

SpecPick == Init /\ [][NextPick]_vars

----------------------------------------------------------------------------
(* An editing session: up to MaxCmds changes are made through the panels    *)
(* and the viewport, then the history is walked back and forth.             *)

EditScenes == { << 1, 2 >> }

\* the session has made changes only: nothing was undone or redone yet
Working == invoked = << >> /\ redoStack = << >>

\* room on the undo stack of this session
Room == Len(undoStack) < MaxCmds

\* the open panel of Randomize mode, with its buttons
PanelOpen == Working /\ Room /\ isRandomizeMode

\* the one outcome of Math.random() this session sees: the middle
Middle == RandDen \div 2

EditRandomizeSteps ==
  \/ RandomizeAttempt(Middle, Middle, 1, RandDen)
  \/ RandomizeNextAsset
  \/ RandomizeFinish

NextEdit ==
  \/ Working /\ Room /\ Untouched /\ LoadFrom(EditScenes)
  \/ Working /\ Room /\ \E i \in 1..Len(assets) : RemoveAsset(assets[i].id)
  \/ Working /\ Room /\ IsSome(selectedAsset) /\ ToggleAssetGravity(selectedAsset[1].id)
  \/ Working /\ \E under \in { << >>, << 1 >> } : Click(Pixel(0, 0), under)
  \/ Working /\ Room /\ AssetDragStart
  \/ GizmoDragMove(1)
  \/ GizmoDragEnd
  \/ Working /\ Room /\ InstrFocus
  \/ TypeNext
  \/ InstrBlur
  \/ Working /\ Room /\ BoundsFocus
  \/ BoundsChange("maxX", mm(400))
  \/ BoundsBlur
  \/ Working /\ EnterRandomizeMode
  \/ PanelOpen /\ FirstRandomize
  \/ EditRandomizeSteps
  \/ PanelOpen /\ SaveCurrentCondition
  \/ PanelOpen /\ DeleteCondition(0)
  \/ PanelOpen /\ ClearSavedConditions
  \/ PanelOpen /\ LoadCondition(0)
  \/ Undo
  \/ Redo

SpecEdit == Init /\ [][NextEdit]_vars

----------------------------------------------------------------------------
(* The viewport and the panels around it: the picking scene is loaded; the  *)
(* pointer presses and clicks in one place; keys are pressed with the focus in or *)
(* out of a text field; the gizmo is dragged on an asset or on the bounds   *)
(* proxy; an asset is selected from the asset list.                         *)

\* the keys onKeyDown has a case for
ModeKeys == { "g", "r", "s" }

SelKeys == ModeKeys \cup { "escape" }

\* the asset list offers the assets of the registry; null deselects
Selectable == { Some(assets[i]) : i \in 1..Len(assets) } \cup { None }

\* nothing has been moved by a drag yet in a behaviour of this
\* specification (every object is where the catalogue puts it, the spawn
\* bounds are the default), and fewer than MaxDrags drags have pushed a command
Undragged ==
  /\ \A id \in DOMAIN objects : objects[id] = Catalog[id].at
  /\ spawnBounds = DEFAULT_SPAWN_BOUNDS
  /\ Len(undoStack) < Len(assets) + MaxDrags

NextSel ==
  \/ Untouched /\ LoadFrom(PickScenes)
  \/ EnterRandomizeMode
  \/ ExitRandomizeMode
  \/ NotTyping /\ MouseDown(sm.pointer)
  \/ NotTyping /\ \E under \in Rays : Click(sm.pointer, under)
  \/ \E key \in SelKeys : KeyDown(key)
  \/ \E asset \in Selectable : SelectAsset(asset)
  \/ Undragged /\ GizmoDragStart
  \/ \E d \in Offsets : GizmoDragMove(d)
  \/ GizmoDragEnd
  \/ InstrFocus
  \/ InstrBlur
  \/ BoundsFocus
  \/ BoundsBlur

SpecSel == Init /\ [][NextSel]_vars

----------------------------------------------------------------------------
(* The pointer on the viewport: it moves, with or without the button down,  *)
(* presses and clicks over the loaded picking scene, and drags the gizmo of *)
(* the selected asset.                                                      *)

\* what lies under the cursor in this specification
PtrRays == { << >>, << 1 >>, << 2, 4 >> }

NextPtr ==
  \/ Untouched /\ LoadFrom(PickScenes)
  \/ \E pos \in UpPixels : PointerMove(pos)
  \/ MouseDown(sm.pointer)
  \/ \E under \in PtrRays : Click(sm.pointer, under)
  \/ Undragged /\ AssetDragStart
  \/ \E d \in Offsets : GizmoDragMove(d)
  \/ GizmoDragEnd

SpecPtr == Init /\ [][NextPtr]_vars

----------------------------------------------------------------------------
(* Gravity toggles: a crate, a table and a plank are loaded; an asset is    *)
(* picked and dragged once; the gravity flag of any loaded asset is         *)
(* toggled; the history is walked back and forth.                           *)

GravScenes == { << 1, 2, 3 >> }

GravRays == { << 1 >>, << 3 >> }

NextGrav ==
  \/ Untouched /\ LoadFrom(GravScenes)
  \/ Working /\ \E under \in GravRays : Click(sm.pointer, under)
  \/ Working /\ Undragged /\ AssetDragStart
  \/ \E d \in Offsets : GizmoDragMove(d)
  \/ GizmoDragEnd
  \/ Room /\ \E i \in 1..Len(assets) : ToggleAssetGravity(assets[i].id)
  \/ Undo
  \/ Redo

SpecGrav == Init /\ [][NextGrav]_vars

----------------------------------------------------------------------------
(* Saved conditions: a crate and a table are loaded; in and out of          *)
(* Randomize mode the layout is randomized, accepted, saved, loaded,        *)
(* deleted and cleared, with indices in and out of range, and the gravity   *)
(* flag of an asset is toggled; the deferred pass of an acceptance runs     *)
(* when its turn comes; the history is walked back and forth.               *)

CondScenes == { << 1, 2 >> }

\* the indices passed to loadCondition and deleteCondition
CondIndices == -1..MaxOps

\* an index that names no condition of the list
OutOfRange(index) == index < 0 \/ index >= Len(savedConditions)

\* room for one more change in a behaviour of this specification; the
\* buttons of the panel are pressed with no deferred call outstanding
\* (a timer of 0 ms fires before the next click), undo, redo and leaving
\* the mode may come before it
OpRoom == Working /\ Len(undoStack) < Len(assets) + MaxOps /\ rz.pending = << >>

NextCond ==
  \/ Untouched /\ LoadFrom(CondScenes)
  \/ Working /\ EnterRandomizeMode
  \/ ExitRandomizeMode
  \/ OpRoom /\ \E i \in 1..Len(assets) : ToggleAssetGravity(assets[i].id)
  \/ OpRoom /\ RandomizeStart
  \/ EditRandomizeSteps
  \/ OpRoom /\ AcceptRandomization
  \/ DeferredRandomize
  \/ OpRoom /\ SaveCurrentCondition
  \/ OpRoom /\ ClearSavedConditions
  \/ \E index \in CondIndices : (OpRoom \/ OutOfRange(index)) /\ DeleteCondition(index)
  \/ \E index \in CondIndices : (OpRoom \/ OutOfRange(index)) /\ LoadCondition(index)
  \/ Undo
  \/ Redo

SpecCond == Init /\ [][NextCond]_vars

\* room for one more change in a behaviour of the loadCondition specification
LoadRoom == Working /\ Len(undoStack) < Len(assets) + MaxLoads

\* loadCondition alone: layouts are saved and randomized, the gravity flags
\* are toggled, saved layouts are loaded, the history is walked
NextLoad ==
  \/ Untouched /\ LoadFrom(CondScenes)
  \/ Working /\ EnterRandomizeMode
  \/ LoadRoom /\ \E i \in 1..Len(assets) : ToggleAssetGravity(assets[i].id)
  \/ LoadRoom /\ RandomizeStart
  \/ EditRandomizeSteps
  \/ LoadRoom /\ SaveCurrentCondition
  \/ \E index \in CondIndices : (LoadRoom \/ OutOfRange(index)) /\ LoadCondition(index)
  \/ Undo
  \/ Redo

SpecLoad == Init /\ [][NextLoad]_vars

\* Save & Next alone: layouts are randomized and accepted, the panel is
\* closed and opened, the history is walked
NextAccept ==
  \/ Untouched /\ LoadFrom(CondScenes)
  \/ Working /\ EnterRandomizeMode
  \/ ExitRandomizeMode
  \/ OpRoom /\ RandomizeStart
  \/ EditRandomizeSteps
  \/ OpRoom /\ AcceptRandomization
  \/ DeferredRandomize
  \/ Undo
  \/ Redo

\* a timer that is due fires, and a placement loop that was entered runs to
\* its end (it is one synchronous call)
SpecAccept ==
  Init /\ [][NextAccept]_vars /\ WF_vars(DeferredRandomize) /\ WF_vars(EditRandomizeSteps)

----------------------------------------------------------------------------
(* Every command: the two assets are loaded, then a few changes of every   *)
(* kind are made, each pushing its command, and the history is walked.     *)

\* room for one more command in a behaviour of this specification
CmdRoom == Working /\ Len(undoStack) < Len(assets) + MaxEach /\ rz.pending = << >>

NextCmds ==
  \/ Untouched /\ LoadFrom(CondScenes)
  \/ CmdRoom /\ Len(assets) = 2 /\ \E i \in 1..Len(assets) : RemoveAsset(assets[i].id)
  \/ CmdRoom /\ \E i \in 1..Len(assets) : ToggleAssetGravity(assets[i].id)
  \/ Working /\ NotTyping /\ \E under \in { << >>, << 1 >> } : Click(Pixel(0, 0), under)
  \/ CmdRoom /\ Undragged /\ AssetDragStart
  \/ GizmoDragMove(1)
  \/ GizmoDragEnd
  \/ CmdRoom /\ InstrFocus
  \/ TypeNext
  \/ InstrBlur
  \/ CmdRoom /\ BoundsFocus
  \/ BoundsChange("maxX", mm(400))
  \/ BoundsBlur
  \/ Working /\ EnterRandomizeMode
  \/ CmdRoom /\ RandomizeStart
  \/ EditRandomizeSteps
  \/ CmdRoom /\ AcceptRandomization
  \/ DeferredRandomize
  \/ CmdRoom /\ SaveCurrentCondition
  \/ CmdRoom /\ DeleteCondition(0)
  \/ CmdRoom /\ ClearSavedConditions
  \/ CmdRoom /\ LoadCondition(0)
  \/ Undo
  \/ Redo

SpecCmds == Init /\ [][NextCmds]_vars

----------------------------------------------------------------------------
(* The instruction field: it is entered, a character is typed or deleted   *)
(* any number of times, it is left; the history is walked.                  *)

\* one keystroke: a character more or a character less
Keystroke ==
  \E text \in { instruction - 1, instruction + 1 } :
    text \in 0..MaxChars /\ InstrInput(text)

NextType ==
  \/ Len(undoStack) < MaxEach /\ InstrFocus
  \/ Keystroke
  \/ InstrBlur
  \/ Undo
  \/ Redo

SpecType == Init /\ [][NextType]_vars

----------------------------------------------------------------------------
(* The key chords: the instruction field is edited, and keys are pressed   *)
(* with the focus in the field or out of it.                                *)

NextChord ==
  \/ Len(undoStack) < MaxEach /\ InstrFocus
  \/ Keystroke
  \/ InstrBlur
  \/ \E e \in KeyEvents : AppKeyDown(e)

SpecChord == Init /\ [][NextChord]_vars

----------------------------------------------------------------------------
(* The bounds proxy: in Randomize mode the rectangle is typed into the      *)
(* panel or the proxy is dragged with the gizmo, in each of its modes and   *)
(* on each of its handles; the history is walked.                           *)

Axes == { "x", "y", "z" }

ProxyOffsets == { -1, 1 }

\* the rectangles the panel's inputs give in this specification
TypedBounds == { DEFAULT_SPAWN_BOUNDS, [DEFAULT_SPAWN_BOUNDS EXCEPT !.maxX = mm(400)] }

\* the proxy has not been dragged since it was created
ProxyAsCreated ==
  IsSome(boundsMeshRef) /\ boundsMeshRef[1] \in { createBoundsMesh(b) : b \in TypedBounds }

\* the gizmo is on the proxy and is grabbed
ProxyDragStart == sm.tcObject # None /\ sm.tcObject[1].kind = "bounds" /\ GizmoDragStart

NextProxy ==
  \/ Untouched /\ LoadFrom(CondScenes)
  \/ Working /\ EnterRandomizeMode
  \/ ExitRandomizeMode
  \/ \E key \in ModeKeys : KeyDown(key)
  \/ Working /\ Len(undoStack) < Len(assets) + MaxEach /\ BoundsFocus
  \/ BoundsChange("maxX", mm(400))
  \/ BoundsBlur
  \/ ProxyAsCreated /\ ProxyDragStart
  \/ \E axis \in Axes : \E d \in ProxyOffsets : ProxyDragMove(axis, d)
  \/ GizmoDragEnd
  \/ Undo
  \/ Redo

SpecProxy == Init /\ [][NextProxy]_vars

----------------------------------------------------------------------------
(* Properties of the history *)

\* a step in which the instruction panel pushed a command: the field is
\* left (handleBlur) with a text that differs from the one it had at focus
PushStep ==
  /\ IsSome(beforeValueRef)
  /\ beforeValueRef' = None
  /\ beforeValueRef[1] # instruction

\* the variables of Scene and of the rest, without the history
SceneUnchanged ==
  UNCHANGED << assets, objects, selectedAsset, spawnBounds, savedConditions, instruction, sm >>

\* C2: after any pushCommand the redo stack is empty, whatever it held
\* before, so a redo() issued right after the push changes neither stack
\* nor the scene.
C2_PushClearsRedo ==
  [][PushStep => /\ redoStack' = << >>
                 /\ redo(Hist)' = Hist']_vars

\* C2 witness: a push is about to happen (the instruction field is left
\* with a changed text) while the redo stack holds undone commands
C2_Witness ==
  /\ Len(redoStack) > 0
  /\ IsSome(beforeValueRef)
  /\ beforeValueRef[1] # instruction

\* C3: the undo stack never holds more than MAX_HISTORY_SIZE commands,
\* whatever the interleaving of pushCommand, undo and redo; a push onto a
\* full stack drops exactly the oldest command, keeps the others in their
\* order and puts the new command on top.
C3_UndoStackBounded ==
  /\ [](Len(undoStack) <= MAX_HISTORY_SIZE)
  /\ [][(PushStep /\ Len(undoStack) = MAX_HISTORY_SIZE) =>
          /\ Len(undoStack') = MAX_HISTORY_SIZE
          /\ SubSeq(undoStack', 1, MAX_HISTORY_SIZE - 1) = Tail(undoStack)
          /\ undoStack'[MAX_HISTORY_SIZE] =
               [type |-> "instruction", before |-> beforeValueRef[1], after |-> instruction]]_vars

\* C3 witness: a full undo stack whose oldest commands have been evicted
C3_Witness ==
  /\ Len(undoStack) = MAX_HISTORY_SIZE
  /\ undoStack[1].before > 0
  /\ undoStack[MAX_HISTORY_SIZE].after = undoStack[1].before + MAX_HISTORY_SIZE

\* C4: undo() on a non-empty undo stack removes exactly the top command,
\* runs that command's undo action once and puts the command on top of the
\* redo stack; redo() is the mirror with the execute action; and undo()
\* followed by redo() leaves both stacks as they were.
C4_UndoRedoMoveTop ==
  /\ [](Len(undoStack) > 0 =>
          LET h2 == redo(undo(Hist))
          IN  h2.undoStack = undoStack /\ h2.redoStack = redoStack)
  /\ [][/\ (invoked' # << >> /\ invoked'[1].action = "undo") =>
             /\ Len(undoStack) > 0
             /\ invoked' = << [command |-> undoStack[Len(undoStack)], action |-> "undo"] >>
             /\ undoStack' = SubSeq(undoStack, 1, Len(undoStack) - 1)
             /\ redoStack' = redoStack \o << undoStack[Len(undoStack)] >>
             /\ Scene' = CmdUndo(undoStack[Len(undoStack)], Scene)
        /\ (invoked' # << >> /\ invoked'[1].action = "execute") =>
             /\ Len(redoStack) > 0
             /\ invoked' = << [command |-> redoStack[Len(redoStack)], action |-> "execute"] >>
             /\ redoStack' = SubSeq(redoStack, 1, Len(redoStack) - 1)
             /\ undoStack' = undoStack \o << redoStack[Len(redoStack)] >>
             /\ Scene' = CmdExecute(redoStack[Len(redoStack)], Scene)
        /\ (invoked' # << >>) => invoked'[1].action \in {"undo", "execute"}]_vars

\* C4 witness: a command has been undone and then redone, with commands
\* left below it
C4_Witness ==
  /\ invoked # << >>
  /\ invoked[1].action = "execute"
  /\ Len(undoStack) > 1
  /\ invoked[1].command = undoStack[Len(undoStack)]

\* C5: undo() with an empty undo stack and redo() with an empty redo stack
\* run no command action and change neither stack nor the scene.
C5_EmptyStackNoOp ==
  [][((Len(undoStack) = 0 /\ Undo) \/ (Len(redoStack) = 0 /\ Redo)) =>
       /\ invoked' = << >>
       /\ UNCHANGED << undoStack, redoStack >>
       /\ SceneUnchanged]_vars

\* C5 witness: every command has been undone, so the undo stack is empty
\* (a further undo() meets it), and the command callback just ran
C5_Witness ==
  /\ Len(undoStack) = 0
  /\ Len(redoStack) > 0
  /\ invoked # << >>


----------------------------------------------------------------------------
(* Properties of the randomized placement *)

\* the placement loop has handled every dynamic asset
RandomizeDone == rz.pc = "placing" /\ rz.index > Len(rz.dynamicAssets)

\* the step in which randomizeNonStaticAssets returns, its command pushed
FinishStep == rz.pc = "placing" /\ rz'.pc = "idle"

\* a step of a randomize invocation
RandomizeStep == rz.pc = "placing" \/ rz'.pc = "placing"

\* a step that undoes or redoes a randomize command
RandomizeReplayed ==
  /\ undoStack' # undoStack
  /\ invoked' # << >>
  /\ invoked'[1].command.type = "randomize"

\* position and orientation
PoseOf(tr) == [position |-> tr.position, yaw |-> tr.yaw]

\* the ids the registry counts as dynamic, by their flags
DynamicNow == { assets[i].id : i \in { j \in 1..Len(assets) :
                  ~ assets[j].disableGravity /\ ~ assets[j].locked /\ ~ assets[j].excludeFromExport } }

\* a world box inside the rectangle on both placement-plane axes (the
\* rectangle's Y axis is the scene's -Z)
InsideRect(box, b) ==
  /\ b.minX <= box.minX /\ box.maxX <= b.maxX
  /\ b.minY <= -box.maxZ /\ -box.minZ <= b.maxY

\* the rectangle shrunk by the footprint radius of id is non-degenerate
FitsRect(id, b) ==
  LET tr == [rz.objects0[id] EXCEPT !.position = [x |-> 0, y |-> 0, z |-> 0]]
      box == WorldBox(Geo(id), tr)
      radius == Max(box.maxX - box.minX, box.maxZ - box.minZ) \div 2
  IN  b.minX + radius < b.maxX - radius /\ b.minY + radius < b.maxY - radius

\* C6: when a randomize invocation returns, undoing its command puts every
\* dynamic asset back at the position and orientation it had before the
\* invocation, and redoing it then gives exactly the poses the invocation
\* produced; the undo and redo steps taken afterwards do the same.
C6_RandomizeUndoRedo ==
  /\ [][FinishStep =>
          /\ \A id \in DynamicNow :
               PoseOf(undo(Hist)'.scene.objects[id]) = PoseOf(rz.objects0[id])
          /\ redo(undo(Hist))'.scene.objects = objects']_vars
  /\ [][RandomizeReplayed =>
          \A id \in DynamicNow :
            PoseOf(objects'[id]) =
              IF invoked'[1].action = "undo" THEN PoseOf(rz.objects0[id])
              ELSE invoked'[1].command.afterPoses[id]]_vars

\* the randomize command has been undone and redone, and the randomized
\* poses differ from the ones before
C6_Witness ==
  /\ rz.pc = "idle"
  /\ invoked # << >>
  /\ invoked[1].command.type = "randomize"
  /\ invoked[1].action = "execute"
  /\ \E id \in DynamicNow : PoseOf(objects[id]) # PoseOf(rz.objects0[id])
  /\ \E id \in DynamicNow : objects[id].yaw # rz.objects0[id].yaw

\* the log entries of the assets the rectangle has room for
FittingEntries ==
  { i \in 1..Len(rz.log) : rz.log[i].canFit /\ FitsRect(rz.log[i].id, spawnBounds) }

Frozen(a) == a.disableGravity \/ a.locked \/ a.excludeFromExport

\* C8: every step of a randomize invocation, and every undo and redo of a
\* randomize command, leaves the position and orientation of the static,
\* locked and export-excluded assets as they are, and the scale and the
\* height of every asset as they are.
C8_RandomizeFrame ==
  [][RandomizeStep \/ RandomizeReplayed =>
       \A i \in 1..Len(assets) :
         /\ Frozen(assets[i]) => objects'[assets[i].id] = objects[assets[i].id]
         /\ objects'[assets[i].id].scale = objects[assets[i].id].scale
         /\ objects'[assets[i].id].position.y = objects[assets[i].id].position.y]_vars

\* a scene with a static, a locked and an export-excluded asset has been
\* randomized and the command undone: only the dynamic asset has moved
C8_Witness ==
  /\ rz.pc = "idle"
  /\ invoked # << >>
  /\ invoked[1].command.type = "randomize"
  /\ \E i, j, k \in 1..Len(assets) :
       assets[i].disableGravity /\ assets[j].locked /\ assets[k].excludeFromExport
  /\ DOMAIN invoked[1].command.afterPoses # {}
  /\ \A id \in DOMAIN invoked[1].command.afterPoses :
       invoked[1].command.afterPoses[id] # invoked[1].command.beforePoses[id]

\* progress of an invocation: assets done, then attempts made on this one
Progress == rz.index * (maxAttempts + 2) + rz.attempt

\* C9: an invocation terminates, after 1 to 100 attempts for each dynamic
\* asset: the attempt count never passes 100, the loop of an asset is left
\* only after 1 to 100 attempts, a running invocation can always take a
\* step, and each of its steps makes progress or returns.
C9_AttemptsAndTermination ==
  /\ [](rz.attempt \in 0..100)
  /\ [](rz.pc = "placing" =>
          \/ rz.index > Len(rz.dynamicAssets)
          \/ rz.index \in 1..Len(rz.dynamicAssets) /\ (~ rz.placed \/ rz.attempt >= 1))
  /\ [][rz.pc = "placing" /\ rz'.pc = "placing" /\ rz'.index # rz.index =>
          /\ rz'.index = rz.index + 1
          /\ rz.attempt \in 1..100
          /\ Len(rz'.log) = rz.index]_vars
  /\ [][rz.pc = "placing" =>
          \/ rz'.pc = "idle" /\ Len(rz'.log) = Len(rz.dynamicAssets)
          \/ rz'.pc = "placing" /\ Progress' > Progress
                                /\ rz'.index <= Len(rz.dynamicAssets) + 1]_vars

\* an invocation has returned in which one asset cannot fit and one asset
\* was given up after its attempts
C9_Witness ==
  /\ rz.pc = "idle"
  /\ rz.log # << >>
  /\ \E i \in 1..Len(rz.log) : ~ rz.log[i].canFit
  /\ \E i \in 1..Len(rz.log) : ~ rz.log[i].placed
  /\ \E i \in 1..Len(rz.log) : rz.log[i].canFit /\ rz.log[i].placed


----------------------------------------------------------------------------
(* Properties of the pick *)

\* a click that gets as far as the pick; the ray it cast is kept
PickStep ==
  /\ ~ sm.tcDragging /\ ~ sm.wasDragging
  /\ sm'.mouseDownPos = None
  /\ sm'.ray \in Rays
  /\ \E pos \in UpPixels :
       /\ ~ (IsSome(sm.mouseDownPos) /\ MovedTooFar(sm.mouseDownPos[1], pos))
       /\ Click(pos, sm'.ray)

\* id is locked, by the catalogue or by a record of it in the registry
\* or in the selection manager's list
IsLocked(id, registry, held) ==
  \/ Catalog[id].asset.locked
  \/ \E i \in 1..Len(registry) : registry[i].id = id /\ registry[i].locked
  \/ \E i \in 1..Len(held) : held[i].id = id /\ held[i].locked

\* C10: after a click that performs a pick, the selected asset (in the
\* selection manager, in the editor state and on the gizmo) is not a locked
\* one: the selection is an unlocked asset, the bounds proxy or nothing.
C10_PickNeverSelectsLocked ==
  [][PickStep =>
       /\ \/ sm'.selectedAsset = None
          \/ /\ ~ sm'.selectedAsset[1].locked
             /\ ~ IsLocked(sm'.selectedAsset[1].id, assets', sm'.assets)
       /\ selectedAsset' = sm'.selectedAsset
       /\ \/ sm'.tcObject = None
          \/ sm'.tcObject = Some(BoundsTarget) /\ sm'.isBoundsSelected /\ sm'.selectedAsset = None
          \/ /\ sm'.tcObject[1].kind = "asset"
             /\ IsSome(sm'.selectedAsset)
             /\ sm'.selectedAsset[1].id = sm'.tcObject[1].id
             /\ ~ IsLocked(sm'.tcObject[1].id, assets', sm'.assets)]_vars

\* in Randomize mode a pick through the locked backdrop has selected the
\* crate behind it
C10_Witness ==
  /\ sm.ray = << 4, 1 >>
  /\ sm.isRandomizeMode /\ ~ sm.isBoundsSelected
  /\ IsSome(sm.selectedAsset) /\ sm.selectedAsset[1].id = 1
  /\ \E i \in 1..Len(sm.assets) : sm.assets[i].id = 4 /\ sm.assets[i].locked


----------------------------------------------------------------------------
(* Properties of the selection *)

\* nothing is selected and the gizmo is detached
NothingSelected(m) == m.selectedAsset = None /\ m.tcObject = None

\* one asset is selected and the gizmo is on it
AssetSelected(m) ==
  /\ IsSome(m.selectedAsset)
  /\ m.tcObject = Some(AssetTarget(m.selectedAsset[1].id))

\* the bounds proxy is selected and the gizmo is on it
BoundsSelected(m) ==
  /\ m.selectedAsset = None
  /\ m.isBoundsSelected
  /\ m.tcObject = Some(BoundsTarget)

\* C11: in every state the selection is nothing, one asset or the bounds
\* proxy, and no asset is selected while the bounds proxy is flagged as
\* selected (the gizmo holds at most one target by construction).
C11_SelectionIsOneOfThree ==
  /\ NothingSelected(sm) \/ AssetSelected(sm) \/ BoundsSelected(sm)
  /\ ~ (IsSome(sm.selectedAsset) /\ sm.isBoundsSelected)

\* C16: the bounds proxy is flagged as selected, and holds the gizmo, only
\* while the selection manager is in Randomize mode and has a proxy; the
\* step that leaves Randomize mode (detachBoundsMesh) ends with the proxy
\* gone, not flagged as selected and without the gizmo.
C16_BoundsOnlyInRandomizeMode ==
  /\ [](sm.isBoundsSelected => sm.isRandomizeMode /\ IsSome(sm.boundsMesh))
  /\ [](sm.tcObject = Some(BoundsTarget) => sm.isRandomizeMode /\ IsSome(sm.boundsMesh))
  /\ [][sm.isRandomizeMode /\ ~ sm'.isRandomizeMode =>
          /\ sm'.boundsMesh = None
          /\ ~ sm'.isBoundsSelected
          /\ sm'.tcObject # Some(BoundsTarget)]_vars

\* Randomize mode was left after the proxy, selected, had been dragged
C16_Witness ==
  /\ ~ sm.isRandomizeMode /\ sm.boundsMesh = None /\ ~ sm.isBoundsSelected
  /\ sm.tcObject = None
  /\ spawnBounds # DEFAULT_SPAWN_BOUNDS

----------------------------------------------------------------------------
(* Properties of the click *)

\* a click where the pointer is
ClickStep == \E under \in Rays \cup PtrRays : Click(sm.pointer, under)

\* the selection as the manager, the gizmo and the editor hold it
Selection == << sm.selectedAsset, sm.isBoundsSelected, sm.tcObject, sm.highlightBox,
                selectedAsset >>

\* the step performs no pick: the selection, the pointer-down position
\* and the last ray cast stay as they were
NoPick ==
  /\ Selection' = Selection
  /\ sm'.mouseDownPos = sm.mouseDownPos
  /\ sm'.ray = sm.ray

\* the step is a click that performs the pick of what is under the pointer
Picked ==
  \E under \in Rays \cup PtrRays :
    Scene' = Pick([Scene EXCEPT !.sm.mouseDownPos = None, !.sm.ray = under], under)

C13_ClickAfterPointerTravel ==
  /\ [][/\ ClickStep /\ IsSome(sm.mouseDownPos)
         /\ sm.travel > ClickThreshold
         => Selection' = Selection /\ sm'.ray = sm.ray]_vars
  /\ [][/\ ClickStep /\ IsSome(sm.mouseDownPos)
         /\ ~ sm.wasDragging /\ ~ sm.tcDragging
         /\ sm.travel <= ClickThreshold
         /\ ~ MovedTooFar(sm.mouseDownPos[1], sm.pointer)
         => Picked]_vars

\* the unlocked assets of the manager's list under the cursor, nearest first
Hit == Intersects(sm, sm'.ray)

\* C14: a click that performs a pick and hits no unlocked geometry ends, in
\* Randomize mode, with the bounds proxy selected (gizmo on the proxy, no
\* asset selected in the manager or the editor), never with nothing
\* selected; outside Randomize mode it ends with nothing selected and the
\* gizmo detached.
C14_PickMiss ==
  [][PickStep /\ Hit = << >> =>
       /\ selectedAsset' = None
       /\ sm'.highlightBox = None
       /\ IF sm.isRandomizeMode
          THEN BoundsSelected(sm') /\ ~ NothingSelected(sm') /\ sm'.isRandomizeMode
          ELSE NothingSelected(sm') /\ ~ sm'.isBoundsSelected]_vars

\* in Randomize mode a click with only the locked backdrop under the cursor
\* has been made while the dragged crate was the selection's last target:
\* the proxy is selected
C14_Witness ==
  /\ sm.ray = << 4 >>
  /\ sm.isRandomizeMode /\ BoundsSelected(sm)
  /\ selectedAsset = None
  /\ undoStack # << >> /\ undoStack[Len(undoStack)].type = "transform"

\* C15: a click that performs a pick and hits unlocked geometry ends with
\* the nearest unlocked asset under the cursor selected in the manager,
\* highlighted and holding the gizmo, with the editor told of it
\* (onSelectionChange), and, in Randomize mode, with the bounds proxy not
\* selected.
C15_PickHit ==
  [][PickStep /\ Hit # << >> =>
       /\ IsSome(sm'.selectedAsset)
       /\ sm'.selectedAsset[1].id = Hit[1]
       /\ \E i \in 1..Len(sm.assets) : sm.assets[i] = sm'.selectedAsset[1] /\ ~ sm.assets[i].locked
       /\ AssetSelected(sm')
       /\ sm'.highlightBox = Some(Hit[1])
       /\ selectedAsset' = sm'.selectedAsset
       /\ sm.isRandomizeMode => ~ sm'.isBoundsSelected /\ sm'.isRandomizeMode]_vars

\* in Randomize mode the table in front of the backdrop has been picked
C15_Witness ==
  /\ sm.ray = << 2, 4 >>
  /\ sm.isRandomizeMode /\ ~ sm.isBoundsSelected
  /\ AssetSelected(sm) /\ sm.selectedAsset[1].id = 2
  /\ selectedAsset = sm.selectedAsset

----------------------------------------------------------------------------
(* Properties of the gizmo drag *)

\* the gizmo is let go
DragEndStep == sm.tcDragging /\ ~ sm'.tcDragging

\* the gizmo is on the selected asset
OnSelectedAsset ==
  /\ IsSome(sm.selectedAsset) /\ IsSome(sm.tcObject)
  /\ sm.tcObject[1] = AssetTarget(sm.selectedAsset[1].id)

\* the onTransformDragEnd event of a drag that ends now, as the command
\* handleTransformDragEnd makes of it
DragEvent ==
  [type |-> "transform", id |-> sm.selectedAsset[1].id,
   before |-> TransformRecord(sm.tcStart[1]),
   after |-> TransformRecord(objects[sm.selectedAsset[1].id])]

\* C17: the end of every gizmo drag of the selected asset emits one
\* onTransformDragEnd event, with the asset's id, its transform (rotation in
\* degrees) at the start of the drag and its transform at the end; no
\* drag-start snapshot is held while no drag is in progress.
C17_DragEndEvent ==
  /\ [][DragEndStep /\ OnSelectedAsset =>
          /\ undoStack' = pushCommand(undoStack, DragEvent)
          /\ invoked' = << >>]_vars
  /\ [](~ sm.tcDragging => sm.dragStartTransform = None)

\* C18: pointer moves during a drag push nothing onto the history; the end
\* of every gizmo drag of an asset pushes exactly one command, a transform
\* command whose undo gives the asset the transform of the drag's start and
\* whose execute after it gives the transform of the drag's end.
C18_OneCommandPerDrag ==
  /\ [][sm.tcDragging /\ sm'.tcDragging => UNCHANGED << undoStack, redoStack >>]_vars
  /\ [][DragEndStep /\ OnSelectedAsset =>
          /\ Len(undoStack') = Len(undoStack) + 1
          /\ SubSeq(undoStack', 1, Len(undoStack)) = undoStack
          /\ undoStack'[Len(undoStack')].type = "transform"
          /\ CmdUndo(undoStack'[Len(undoStack')], Scene').objects[sm.selectedAsset[1].id]
               = sm.tcStart[1]
          /\ CmdExecute(undoStack'[Len(undoStack')],
                        CmdUndo(undoStack'[Len(undoStack')], Scene')).objects
               = objects']_vars

----------------------------------------------------------------------------
(* Properties of the keyboard shortcuts *)

\* the gizmo mode each mode key stands for
ModeOf(key) ==
  CASE key = "g" -> "translate" [] key = "r" -> "rotate" [] key = "s" -> "scale"

\* C19: with the focus in a text field (a bounds input or the instruction
\* textarea) a press of g, r, s or Escape changes neither the gizmo mode nor
\* the selection; with the focus elsewhere g, r and s set the translate,
\* rotate and scale mode and leave the selection alone, and Escape leaves
\* nothing selected.
C19_ShortcutsOutsideTextFields ==
  /\ [][InTextField /\ (\E key \in SelKeys : KeyDown(key)) =>
          sm'.tcMode = sm.tcMode /\ Selection' = Selection]_vars
  /\ [][\A key \in ModeKeys : ~ InTextField /\ KeyDown(key) =>
          sm'.tcMode = ModeOf(key) /\ Selection' = Selection]_vars
  /\ [][~ InTextField /\ KeyDown("escape") =>
          /\ NothingSelected(sm') /\ selectedAsset' = None /\ sm'.highlightBox = None
          /\ sm'.tcMode = sm.tcMode]_vars

----------------------------------------------------------------------------
(* Properties of the gravity toggle *)

\* the registry list with the flag of id inverted and nothing else changed
Flipped(list, id) ==
  [i \in 1..Len(list) |->
     IF list[i].id = id
     THEN [list[i] EXCEPT !.disableGravity = ~ list[i].disableGravity]
     ELSE list[i]]

\* C20: a toggleAssetGravity call inverts the flag of the named asset and
\* changes no other asset's record and no transform; a second call, and
\* equally undo() after the first, give the asset its original flag back,
\* again with every other record and every transform as before.
C20_ToggleGravity ==
  [][\A i \in 1..Len(assets) : ToggleAssetGravity(assets[i].id) =>
       /\ assets' = Flipped(assets, assets[i].id)
       /\ assets'[i].disableGravity # assets[i].disableGravity
       /\ objects' = objects
       /\ doToggleAssetGravity(Scene', assets[i].id).assets = assets
       /\ doToggleAssetGravity(Scene', assets[i].id).objects = objects
       /\ undo(Hist)'.scene.assets = assets
       /\ undo(Hist)'.scene.objects = objects
       /\ undo(Hist)'.invoked =
            << [command |-> [type |-> "toggleGravity", id |-> assets[i].id], action |-> "undo"] >>]_vars

\* the plank's gravity was switched off and on again by two toggles after
\* the crate had been dragged: its flag is the catalogue's again
C20_Witness ==
  /\ Len(undoStack) >= 2
  /\ undoStack[Len(undoStack)] = [type |-> "toggleGravity", id |-> 3]
  /\ undoStack[Len(undoStack) - 1] = [type |-> "toggleGravity", id |-> 3]
  /\ \E k \in 1..Len(undoStack) : undoStack[k].type = "transform"
  /\ \E i \in 1..Len(assets) : assets[i] = Catalog[3].asset

----------------------------------------------------------------------------
(* Properties of the saved conditions *)

\* C21: clearSavedConditions on a non-empty list empties it and pushes one
\* command; undo() after it gives back the very list of before the clear,
\* in the same order, and every undo of a clear command in a behaviour
\* leaves the list that command was made with.
C21_ClearThenUndo ==
  /\ [][savedConditions # << >> /\ ClearSavedConditions =>
          /\ savedConditions' = << >>
          /\ undoStack' = pushCommand(undoStack, [type |-> "clearConditions",
                                                   previousConditions |-> savedConditions])
          /\ undo(Hist)'.scene.savedConditions = savedConditions]_vars
  /\ [][/\ Undo /\ undoStack # << >>
         /\ undoStack[Len(undoStack)].type = "clearConditions"
         => /\ savedConditions' = undoStack[Len(undoStack)].previousConditions
            /\ savedConditions' # << >>]_vars

\* a layout was saved, the list was cleared and the clear undone: exactly
\* the one saved condition is back
C21_Witness ==
  /\ Len(savedConditions) = 1
  /\ redoStack # << >> /\ redoStack[Len(redoStack)].type = "clearConditions"
  /\ redoStack[Len(redoStack)].previousConditions = savedConditions
  /\ undoStack # << >> /\ undoStack[Len(undoStack)].type = "saveCondition"

\* C22: loadCondition(i) and deleteCondition(i) with i below 0 or at or
\* beyond the length of the list change no pose, leave the list (and the
\* rest of the scene) as it is and push no command: both stacks are as before.
C22_IndexOutOfRange ==
  [][\A index \in CondIndices :
       OutOfRange(index) /\ (LoadCondition(index) \/ DeleteCondition(index))
       => /\ objects' = objects
          /\ savedConditions' = savedConditions
          /\ Scene' = Scene
          /\ undoStack' = undoStack
          /\ redoStack' = redoStack]_vars

\* a randomization was undone and an index outside the list was then
\* passed: the redo stack still holds the command
C22_Witness ==
  /\ isRandomizeMode /\ Idle /\ IsSome(savedPoses)
  /\ invoked = << >>
  /\ redoStack # << >> /\ redoStack[Len(redoStack)].type = "randomize"

\* C23: randomize called (by the button or by a deferred call) when the
\* registry has no unlocked exportable dynamic asset, or no unlocked
\* exportable static asset, is a no-op: no pose changes, savedPoses is not
\* set, the invocation ends at once, no command is pushed and the redo
\* stack is not cleared.
C23_RandomizeWithoutBothKinds ==
  [][(RandomizeStart \/ DeferredRandomize) /\ ~ canRandomize(assets)
     => /\ objects' = objects
        /\ savedPoses' = savedPoses
        /\ Idle'
        /\ undoStack' = undoStack
        /\ redoStack' = redoStack]_vars

\* C24: Randomize mode is active only while the registry holds at least one
\* unlocked exportable dynamic asset and at least one unlocked exportable
\* static asset, whatever was toggled, removed, undone or redone since the
\* mode was entered.
C24_ModeNeedsBothKinds == isRandomizeMode => canRandomize(assets)

\* the randomize commands on the undo stack
RandomizeCommands == { i \in 1..Len(undoStack) : undoStack[i].type = "randomize" }

\* C25: a randomize invocation that has a dynamic asset to move pushes
\* exactly one command, however many assets it moves: nothing is pushed
\* when it starts or while it places the assets, and when it returns the
\* undo stack is the one of before with one randomize command on top that
\* holds the poses of every dynamic asset; one undo() then puts every
\* object back where it was when the invocation started.
C25_OneCommandPerRandomize ==
  /\ [][RandomizeStep /\ ~ FinishStep => undoStack' = undoStack /\ redoStack' = redoStack]_vars
  /\ [][FinishStep =>
          /\ Len(undoStack') = Len(undoStack) + 1
          /\ SubSeq(undoStack', 1, Len(undoStack)) = undoStack
          /\ undoStack'[Len(undoStack')].type = "randomize"
          /\ DOMAIN undoStack'[Len(undoStack')].beforePoses = DynamicNow
          /\ DOMAIN undoStack'[Len(undoStack')].afterPoses = DynamicNow
          /\ undo(Hist)'.scene.objects = rz.objects0
          /\ undo(Hist)'.undoStack = undoStack]_vars

\* an invocation has moved two assets and returned: the stack holds one
\* randomize command
C25_Witness ==
  /\ Idle /\ invoked = << >>
  /\ Cardinality(RandomizeCommands) = 1
  /\ undoStack[Len(undoStack)].type = "randomize"
  /\ Cardinality({ id \in DynamicNow : objects[id].position # rz.objects0[id].position }) = 2

\* the step in which acceptRandomization pushes its command
AcceptStep ==
  /\ invoked' = << >>
  /\ Len(undoStack') = Len(undoStack) + 1
  /\ undoStack'[Len(undoStack')].type = "acceptRandomization"

\* C26 (as stated): the condition acceptRandomization appends holds the
\* poses the assets had before the randomization being accepted, which
\* savedPoses keeps.
C26_AcceptSavesSavedPoses ==
  [][AcceptStep =>
       savedConditions' = Append(savedConditions, [poses |-> savedPoses[1]])]_vars

\* C26 (amended): the condition acceptRandomization appends holds the poses
\* the dynamic assets have at the moment of the acceptance, that is the
\* randomized layout on display, and the command it pushes holds that
\* condition; savedPoses is dropped, not saved.
C26_AcceptSavesCurrentPoses ==
  [][AcceptStep =>
       /\ savedConditions' = Append(savedConditions, [poses |-> capturePoses(Scene)])
       /\ undoStack'[Len(undoStack')].condition = [poses |-> capturePoses(Scene)]
       /\ objects' = objects
       /\ savedPoses' = None]_vars

\* a randomization that moved an asset was accepted: the last condition
\* holds the poses after it, not the poses before it
C26_Witness ==
  /\ Len(undoStack) >= 2 /\ savedConditions # << >>
  /\ undoStack[Len(undoStack)].type = "acceptRandomization"
  /\ undoStack[Len(undoStack) - 1].type = "randomize"
  /\ savedConditions[Len(savedConditions)].poses = undoStack[Len(undoStack) - 1].afterPoses
  /\ savedConditions[Len(savedConditions)].poses # undoStack[Len(undoStack) - 1].beforePoses

\* a call of acceptRandomization: the poses kept for the randomization on
\* display are dropped and the panel stays open
AcceptCall ==
  /\ Idle /\ isRandomizeMode /\ isRandomizeMode'
  /\ IsSome(savedPoses) /\ savedPoses' = None

\* the deferred call fires
TimerStep == Len(rz'.pending) < Len(rz.pending)

\* C27: every call of acceptRandomization leaves exactly one deferred call
\* and nothing else leaves one; the pass does not run inside the call (the
\* call ends with its condition saved and its command on top of the undo
\* stack); a deferred call is taken off only by running, one at a time,
\* and when it runs with a dynamic asset in the registry it enters the
\* placement loop whether or not the editor is still in Randomize mode and
\* whether or not something was undone since; the pass then pushes its
\* randomize command on top of what the stack holds; every deferred call
\* does run.
C27_DeferredPass ==
  /\ [][AcceptCall => Len(rz'.pending) = Len(rz.pending) + 1 /\ Idle']_vars
  /\ [][AcceptStep => AcceptCall /\ objects' = objects]_vars
  /\ [][Len(rz'.pending) > Len(rz.pending) => AcceptCall]_vars
  /\ [][TimerStep =>
          /\ Idle /\ rz'.pending = Tail(rz.pending)
          /\ undoStack' = undoStack /\ redoStack' = redoStack
          /\ IF DynamicNow # {}
             THEN /\ rz'.pc = "placing" /\ rz'.bounds = Head(rz.pending)
                  /\ savedPoses' = Some(capturePoses(Scene))
             ELSE Idle' /\ savedPoses' = savedPoses /\ objects' = objects]_vars
  /\ [][FinishStep =>
          /\ undoStack' = Append(undoStack, undoStack'[Len(undoStack')])
          /\ undoStack'[Len(undoStack')].type = "randomize"
          /\ redoStack' = << >>]_vars
  /\ (rz.pending # << >>) ~> (rz.pending = << >>)

\* the panel was closed after Save & Next and before the timer fired: the
\* pass is running outside Randomize mode, the accepted condition saved
C27_Witness ==
  /\ rz.pc = "placing" /\ ~ isRandomizeMode
  /\ rz.pending = << >>
  /\ undoStack[Len(undoStack)].type = "acceptRandomization"
  /\ savedConditions # << >>
  /\ rz.attempt > 0

\* the spawnBounds commands of a stack, by position
BoundsCommands(stack) == { i \in 1..Len(stack) : stack[i].type = "spawnBounds" }

Highest(S) == CHOOSE i \in S : \A j \in S : j <= i

\* the spawn bounds the history accounts for: what the last bounds command
\* still done has set, or else what the earliest undone one started from,
\* or else the bounds of a new editor
HistoryBounds ==
  IF BoundsCommands(undoStack) # {}
  THEN undoStack[Highest(BoundsCommands(undoStack))].after
  ELSE IF BoundsCommands(redoStack) # {}
       THEN redoStack[Highest(BoundsCommands(redoStack))].before
       ELSE DEFAULT_SPAWN_BOUNDS

\* C28: the spawn bounds never change without a command for the gesture
\* that changed them: whenever no bounds field has the focus and the gizmo
\* is not being dragged, the spawn bounds are the ones the history accounts
\* for, so that undo after a gesture restores the bounds of before it.
C28_BoundsChangeHasCommand ==
  beforeBoundsRef = None /\ ~ sm.tcDragging => spawnBounds = HistoryBounds

\* the step in which saveCurrentCondition or acceptRandomization pushes its
\* command
CaptureStep ==
  /\ invoked' = << >>
  /\ Len(undoStack') = Len(undoStack) + 1
  /\ undoStack'[Len(undoStack')].type \in { "saveCondition", "acceptRandomization" }

\* the steps that may change the list of saved conditions
ConditionsStep ==
  \/ CaptureStep
  \/ /\ invoked' = << >> /\ undoStack' # undoStack
     /\ undoStack'[Len(undoStack')].type \in { "clearConditions", "deleteCondition" }
  \/ /\ invoked' # << >>
     /\ invoked'[1].command.type \in { "saveCondition", "acceptRandomization",
                                        "clearConditions", "deleteCondition" }

\* C29: the condition saveCurrentCondition or acceptRandomization appends
\* has one entry for each asset that is unlocked, exportable and
\* gravity-enabled at that moment and for no other, each with the asset's
\* position and orientation of that moment; what is stored is a copy: moving
\* the assets afterwards (randomizing, loading a condition, undo and redo
\* of such moves) leaves every stored condition as it is; with no such
\* asset both calls append nothing and push nothing.
C29_CapturedPoses ==
  /\ [][CaptureStep =>
          /\ Len(savedConditions') = Len(savedConditions) + 1
          /\ SubSeq(savedConditions', 1, Len(savedConditions)) = savedConditions
          /\ DOMAIN savedConditions'[Len(savedConditions')].poses = DynamicNow
          /\ \A id \in DynamicNow :
               savedConditions'[Len(savedConditions')].poses[id] = PoseOf(objects[id])
          /\ undoStack'[Len(undoStack')].condition = savedConditions'[Len(savedConditions')]]_vars
  /\ [][savedConditions' # savedConditions => ConditionsStep]_vars
  /\ [][DynamicNow = {} /\ (SaveCurrentCondition \/ AcceptRandomization)
         => /\ savedConditions' = savedConditions
            /\ undoStack' = undoStack /\ redoStack' = redoStack]_vars

\* a condition was saved, then the gravity of an asset was switched and an
\* asset of the condition was moved: the condition still lists the assets
\* that were dynamic when it was saved, with the poses of that moment
C29_Witness ==
  /\ Len(savedConditions) = 1
  /\ DOMAIN savedConditions[1].poses # {}
  /\ DOMAIN savedConditions[1].poses # DynamicNow
  /\ \E id \in DOMAIN savedConditions[1].poses :
       savedConditions[1].poses[id] # PoseOf(objects[id])

\* the command redo() would execute, the command undo() would undo
NextRedo == redoStack[Len(redoStack)]

NextUndo == undoStack[Len(undoStack)]

\* the action applied twice in a row gives what applying it once gives
ExecuteTwice(c) == CmdExecute(c, CmdExecute(c, Scene)) = CmdExecute(c, Scene)

UndoTwice(c) == CmdUndo(c, CmdUndo(c, Scene)) = CmdUndo(c, Scene)

\* C30 (as stated): for every command the editor has constructed, execute
\* applied twice in a row leaves what execute applied once leaves, and so
\* does undo.
C30_EveryActionIdempotent ==
  /\ redoStack # << >> => ExecuteTwice(NextRedo)
  /\ undoStack # << >> => UndoTwice(NextUndo)

\* the commands whose execute sets values, and those whose undo does
SettingExecute ==
  { "transform", "instruction", "spawnBounds", "removeAsset", "randomize",
    "clearConditions", "deleteCondition", "loadCondition" }

SettingUndo ==
  { "transform", "instruction", "spawnBounds", "addAsset", "randomize",
    "clearConditions", "deleteCondition", "loadCondition" }

\* C30 (amended): execute is idempotent for the transform, instruction,
\* spawnBounds, removeAsset, randomize, clearConditions, deleteCondition
\* and loadCondition commands, and undo for the same with addAsset in the
\* place of removeAsset; execute and undo of toggleGravity flip the flag
\* each time, execute of addAsset and undo of removeAsset append the asset
\* to the registry each time, and execute of saveCondition and of
\* acceptRandomization appends the condition each time, so these are not
\* idempotent.
C30_SettingActionsIdempotent ==
  /\ redoStack # << >> =>
       /\ NextRedo.type \in SettingExecute => ExecuteTwice(NextRedo)
       /\ NextRedo.type \in { "addAsset", "toggleGravity", "saveCondition",
                              "acceptRandomization" } => ~ ExecuteTwice(NextRedo)
  /\ undoStack # << >> =>
       /\ NextUndo.type \in SettingUndo => UndoTwice(NextUndo)
       /\ NextUndo.type \in { "removeAsset", "toggleGravity" } => ~ UndoTwice(NextUndo)

\* a condition was saved and deleted and the deletion undone: redo would
\* execute the deleteCondition command, which changes the list, and undo
\* would undo the saveCondition command
C30_Witness ==
  /\ redoStack # << >> /\ NextRedo.type = "deleteCondition"
  /\ CmdExecute(NextRedo, Scene) # Scene
  /\ undoStack # << >> /\ NextUndo.type = "saveCondition"

----------------------------------------------------------------------------
(* Properties of the instruction field *)

\* the texts the commands of a stack hold
TextsOf(stack) == { stack[i].before : i \in 1..Len(stack) } \cup { stack[i].after : i \in 1..Len(stack) }

\* C32: entering the instruction field keeps the text it has; while the
\* field has the focus, keystrokes change the text and leave the kept text
\* and both stacks as they are; leaving the field with a text that differs
\* from the kept one pushes exactly one instruction command, from the
\* kept text to the text at that moment, and leaving it with the same text
\* (whatever was typed in between) pushes nothing.
C32_OneCommandPerEdit ==
  /\ [][beforeValueRef = None /\ IsSome(beforeValueRef') =>
          /\ beforeValueRef' = Some(instruction)
          /\ instruction' = instruction
          /\ undoStack' = undoStack /\ redoStack' = redoStack]_vars
  /\ [][IsSome(beforeValueRef) /\ IsSome(beforeValueRef') =>
          /\ beforeValueRef' = beforeValueRef
          /\ undoStack' = undoStack /\ redoStack' = redoStack]_vars
  /\ [][IsSome(beforeValueRef) /\ beforeValueRef' = None =>
          /\ instruction' = instruction
          /\ IF instruction # beforeValueRef[1]
             THEN /\ undoStack' = Append(undoStack, [type |-> "instruction",
                                                      before |-> beforeValueRef[1],
                                                      after |-> instruction])
                  /\ redoStack' = << >>
             ELSE undoStack' = undoStack /\ redoStack' = redoStack]_vars

\* two characters were typed in one visit of the field: one command, from
\* the text at focus to the text at blur, and the text in between is
\* nowhere in the history
C32_Witness ==
  /\ beforeValueRef = None /\ invoked = << >>
  /\ Len(undoStack) = 1
  /\ undoStack[1].after = undoStack[1].before + 2
  /\ instruction = undoStack[1].after
  /\ undoStack[1].before + 1 \notin TextsOf(undoStack) \cup TextsOf(redoStack)

----------------------------------------------------------------------------
(* Properties of the key chords *)

\* Ctrl or Cmd with Z, Shift up
UndoChord(e) == (e.ctrlKey \/ e.metaKey) /\ ~ e.shiftKey /\ e.key \in { "z", "Z" }

\* Shift with Ctrl or Cmd and Z, or Ctrl or Cmd with Y
RedoChord(e) ==
  /\ e.ctrlKey \/ e.metaKey
  /\ \/ e.shiftKey /\ e.key \in { "z", "Z" }
     \/ ~ e.shiftKey /\ e.key = "y"

\* C33: with the focus outside the text fields, a keydown of Ctrl/Cmd+Z
\* does what one call of undo() does, and a keydown of Shift+Ctrl/Cmd+Z or
\* of Ctrl/Cmd+Y does what one call of redo() does; with the focus in a
\* text field these chords leave both stacks and the scene as they are.
C33_UndoRedoChords ==
  [][\A e \in KeyEvents :
       AppKeyDown(e) =>
         /\ ~ InTextField /\ UndoChord(e) => Hist' = undo(Hist)
         /\ ~ InTextField /\ RedoChord(e) => Hist' = redo(Hist)
         /\ InTextField =>
              undoStack' = undoStack /\ redoStack' = redoStack /\ Scene' = Scene]_vars

----------------------------------------------------------------------------
(* Properties of the bounds proxy *)

\* the extents of a rectangle
ExtentX(b) == b.maxX - b.minX

ExtentY(b) == b.maxY - b.minY

\* the rectangle b moved by dx and dy
Shifted(b, dx, dy) ==
  [minX |-> b.minX + dx, maxX |-> b.maxX + dx, minY |-> b.minY + dy, maxY |-> b.maxY + dy]

\* a step that moves the proxy and leaves its size and scale
ProxyTranslated ==
  /\ IsSome(boundsMeshRef) /\ IsSome(boundsMeshRef')
  /\ boundsMeshRef'[1].position # boundsMeshRef[1].position
  /\ boundsMeshRef' = Some([boundsMeshRef[1] EXCEPT !.position = boundsMeshRef'[1].position])

\* C31: the bounds read from the proxy created for the spawn bounds are the
\* spawn bounds; when the proxy is translated, the bounds read from it are
\* the ones read before, shifted by the offset on X and by minus the offset
\* on the world's Z, with the extents unchanged; and the extents read from
\* the proxy are always the sizes the proxy has on the two axes of the
\* placement plane, however it was scaled.
C31_BoundsProxyMapping ==
  /\ [](updateBoundsFromMesh(createBoundsMesh(spawnBounds)) = spawnBounds)
  /\ [][ProxyTranslated =>
          updateBoundsFromMesh(boundsMeshRef'[1]) =
            Shifted(updateBoundsFromMesh(boundsMeshRef[1]),
                    boundsMeshRef'[1].position.x - boundsMeshRef[1].position.x,
                    boundsMeshRef[1].position.z - boundsMeshRef'[1].position.z)]_vars
  /\ [](IsSome(boundsMeshRef) =>
          /\ ExtentX(updateBoundsFromMesh(boundsMeshRef[1])) = ProxyExtent(boundsMeshRef[1]).x
          /\ ExtentY(updateBoundsFromMesh(boundsMeshRef[1])) = ProxyExtent(boundsMeshRef[1]).z)

----------------------------------------------------------------------------
(* Properties of a single placement *)

StaticNow == { assets[i].id : i \in { j \in 1..Len(assets) : IsStatic(assets[j]) } }

\* the first pass of the attempt loop for the only dynamic asset of a scene
\* with one static asset, when the rectangle has room for its footprint
FirstAttemptAlone ==
  /\ Placing /\ rz.attempt = 0 /\ rz'.attempt = 1
  /\ Len(rz.dynamicAssets) = 1
  /\ Cardinality(StaticNow) = 1
  /\ rz.placedBoxes = << >>
  /\ canFit(ValidBounds(rz.dynamicAssets[1], objects[rz.dynamicAssets[1]],
                        rz.poses[rz.dynamicAssets[1]].yaw, rz.bounds))

\* the centre of the world box of id on the placement plane
CentreOf(id, objs) ==
  LET box == WorldBox(Geo(id), objs[id])
  IN  [x |-> (box.minX + box.maxX) \div 2, y |-> -((box.minZ + box.maxZ) \div 2)]

CentreInside(c, valid) ==
  /\ valid.minX <= c.x /\ c.x <= valid.maxX
  /\ valid.minY <= c.y /\ c.y <= valid.maxY

\* C34: with one static asset, one dynamic asset whose footprint the spawn
\* rectangle has room for and no box placed yet, the first placement attempt
\* is accepted, and it leaves the centre of the asset inside the rectangle
\* shrunk on every side by the footprint radius.
C34_FirstAttemptAccepted ==
  [][FirstAttemptAlone =>
       /\ rz'.placed
       /\ CentreInside(CentreOf(rz.dynamicAssets[1], objects'),
                       ValidBounds(rz.dynamicAssets[1], objects[rz.dynamicAssets[1]],
                                   rz.poses[rz.dynamicAssets[1]].yaw, rz.bounds))]_vars

\* a pass of the attempt loop that accepts its candidate
AcceptedAttempt == Placing /\ rz'.attempt = rz.attempt + 1 /\ rz'.placed

\* the box of the asset the loop is at, after the step
CandidateBox == WorldBox(Geo(rz.dynamicAssets[rz.index]), objects'[rz.dynamicAssets[rz.index]])

\* C35: a candidate pose is accepted only if its box meets none of the boxes
\* recorded for the earlier dynamic assets of the invocation and, when the
\* rectangle has room for the asset, only if its box lies within the
\* unshrunken rectangle; so when every dynamic asset of an invocation was
\* accepted, the boxes of the dynamic assets at its end are pairwise apart.
C35_AcceptedApart ==
  /\ [][AcceptedAttempt =>
          /\ \A i \in 1..Len(rz.placedBoxes) : ~ checkCollision(CandidateBox, rz.placedBoxes[i])
          /\ Len(rz.placedBoxes) = rz.index - 1
          /\ FitsRect(rz.dynamicAssets[rz.index], rz.bounds) =>
               InsideRect(CandidateBox, rz.bounds)]_vars
  /\ [](RandomizeDone /\ (\A i \in 1..Len(rz.log) : rz.log[i].placed) =>
          \A i, j \in 1..Len(rz.log) :
            i # j => ~ checkCollision(WorldBox(Geo(rz.log[i].id), objects[rz.log[i].id]),
                                      WorldBox(Geo(rz.log[j].id), objects[rz.log[j].id])))

\* an invocation with two dynamic assets has ended with both accepted and
\* an asset away from where it was
C35_Witness ==
  /\ RandomizeDone
  /\ Len(rz.log) = 2
  /\ \A i \in 1..Len(rz.log) : rz.log[i].placed
  /\ Len(rz.placedBoxes) = 2
  /\ \E id \in DynamicNow : PoseOf(objects[id]) # PoseOf(rz.objects0[id])

----------------------------------------------------------------------------
(* Properties of the registry *)

\* removeAsset has taken an asset out of the registry
RemovalStep == Len(assets') < Len(assets) /\ invoked' = << >>

\* C36: undoing a removeAsset gives the registry the sequence of assets it
\* had before the removal, the removed asset at the index it had and with
\* its flags, wherever in the registry it was; so randomize goes through the
\* dynamic assets in the order it did before.
C36_RemoveUndoKeepsOrder ==
  [][RemovalStep =>
       /\ undo(Hist)'.scene.assets = assets
       /\ DynamicSeq(undo(Hist)'.scene.assets) = DynamicSeq(assets)]_vars

----------------------------------------------------------------------------
(* Properties of loadCondition *)

\* loadCondition has applied a saved layout
LoadStep ==
  /\ undoStack' # undoStack /\ invoked' = << >>
  /\ undoStack'[Len(undoStack')].type = "loadCondition"

\* C37: undoing a loadCondition gives every asset of the registry the
\* position and orientation it had before the load, the assets listed in
\* the loaded layout that are no longer dynamic included; and loadCondition
\* leaves every asset that is static when it is called where it is.
C37_LoadUndoRestoresAll ==
  [][LoadStep =>
       /\ \A i \in 1..Len(assets) :
            PoseOf(undo(Hist)'.scene.objects[assets[i].id]) = PoseOf(objects[assets[i].id])
       /\ \A id \in StaticNow : PoseOf(objects'[id]) = PoseOf(objects[id])]_vars

----------------------------------------------------------------------------
(* Properties of the selection and the registry *)

InRegistry(id) == IsSome(FindAsset(assets, id))

\* C38: the selected asset, if there is one, is an asset of the registry,
\* and the gizmo is on no asset that has left the registry: an asset that
\* leaves the registry while it is selected (removeAsset, undo of addAsset,
\* redo of removeAsset) is deselected and the gizmo detached, whatever was
\* selected when the command was made.
C38_SelectedInRegistry ==
  /\ IsSome(selectedAsset) => InRegistry(selectedAsset[1].id)
  /\ IsSome(sm.selectedAsset) => InRegistry(sm.selectedAsset[1].id)
  /\ IsSome(sm.tcObject) /\ sm.tcObject[1].kind = "asset" => InRegistry(sm.tcObject[1].id)

----------------------------------------------------------------------------
(* Properties of the spawn bounds in Randomize mode *)

\* a 'change' event of the gizmo on the proxy that finds the proxy where it was
ChangeUnmoved ==
  /\ sm.tcDragging /\ IsSome(sm.tcObject) /\ sm.tcObject[1].kind = "bounds"
  /\ invoked' = << >>
  /\ boundsMeshRef' = boundsMeshRef

\* C39: in Randomize mode the spawn bounds are the bounds read from the
\* proxy as it stands, after an undo or a redo of a spawn-bounds command
\* too; so a 'change' event of the gizmo that finds the proxy unmoved leaves
\* the spawn bounds as they are.
C39_BoundsFollowProxy ==
  /\ [](isRandomizeMode /\ IsSome(boundsMeshRef) =>
          spawnBounds = updateBoundsFromMesh(boundsMeshRef[1]))
  /\ [][ChangeUnmoved => spawnBounds' = spawnBounds]_vars

----------------------------------------------------------------------------
(* Properties of the selection and the gizmo *)

\* C40: while an asset is selected the gizmo is attached to the object of
\* that asset and the highlight box of that asset exists, whichever of
\* select, a pick, attachToBoundsMesh, detachBoundsMesh (leaving Randomize
\* mode with an asset selected) and setSpawnBounds in Randomize mode came last.
C40_SelectedHasGizmo ==
  /\ IsSome(sm.selectedAsset) =>
       /\ sm.tcObject = Some(AssetTarget(sm.selectedAsset[1].id))
       /\ sm.highlightBox = Some(sm.selectedAsset[1].id)
  /\ IsSome(selectedAsset) =>
       /\ sm.tcObject = Some(AssetTarget(selectedAsset[1].id))
       /\ sm.highlightBox = Some(selectedAsset[1].id)

----------------------------------------------------------------------------
(* Properties of a whole session *)

RECURSIVE UndoAll(_)
\* undo() until the undo stack is empty
UndoAll(h) == IF h.undoStack = << >> THEN h ELSE UndoAll(undo(h))

RECURSIVE RedoAll(_)
\* redo() until the redo stack is empty
RedoAll(h) == IF h.redoStack = << >> THEN h ELSE RedoAll(redo(h))

\* the observed state: the registry with the transform of each of its
\* assets, the spawn bounds, the instruction text and the saved conditions
Observed(s) ==
  [registry |-> { [asset |-> s.assets[i], transform |-> s.objects[s.assets[i].id]] :
                    i \in 1..Len(s.assets) },
   spawnBounds |-> s.spawnBounds,
   instruction |-> s.instruction,
   savedConditions |-> s.savedConditions]

\* the observed state of the editor after construction
ObservedAtStart ==
  [registry |-> {}, spawnBounds |-> DEFAULT_SPAWN_BOUNDS, instruction |-> 0,
   savedConditions |-> << >>]

\* C1: after any N changes made through the history from the empty history,
\* N undos give the observed state of the start, and N redos after them
\* give the observed state the changes had led to.
C1_UndoAllRedoAll ==
  Working /\ Ready =>
    /\ Observed(UndoAll(Hist).scene) = ObservedAtStart
    /\ Observed(RedoAll(UndoAll(Hist)).scene) = Observed(Scene)

=============================================================================
